---- MODULE Spec2Model ----
(***************************************************************************)
(* A model of scripts/analyze_abstracts.py: the rule-based analysis of a   *)
(* corpus of abstracts.  Texts are strings; the regular expressions of the *)
(* source are kept as syntax trees and matched by a backtracking matcher   *)
(* with the priority order of Python's re module, so a classification or a *)
(* count is computed from the characters of the text as the code does.     *)
(***************************************************************************)
EXTENDS Integers, Sequences, FiniteSets, TLC

(***************************************************************************)
(* Characters and strings (Python str methods)                             *)
(***************************************************************************)
\* a list: the sequence with every element evaluated once
AsTuple(f) == f \o <<>>

UPPER == "ABCDEFGHIJKLMNOPQRSTUVWXYZ"
LOWER == "abcdefghijklmnopqrstuvwxyz"
DIGITS == "0123456789"

CharsOf(str) == {SubSeq(str, k, k) : k \in 1..Len(str)}

UpperSet == CharsOf(UPPER)
LowerSet == CharsOf(LOWER)
DigitSet == CharsOf(DIGITS)
\* \w of an ASCII text
WordSet == UpperSet \cup LowerSet \cup DigitSet \cup {"_"}
\* \s
SpaceSet == {" ", "\t", "\n", "\r", "\f"}

\* the character of s at position i (1-based), "" outside s
At(s, i) == IF i >= 1 /\ i <= Len(s) THEN SubSeq(s, i, i) ELSE ""

\* s[i:j] of Python with 1-based inclusive bounds; "" when empty
Sub(s, i, j) == IF i > j \/ i > Len(s) \/ j < 1 THEN ""
                ELSE SubSeq(s, IF i < 1 THEN 1 ELSE i, IF j > Len(s) THEN Len(s) ELSE j)

StartsAt(s, i, lit) ==
    /\ i >= 1
    /\ i + Len(lit) - 1 <= Len(s)
    /\ SubSeq(s, i, i + Len(lit) - 1) = lit

ToLower == [c \in UpperSet |-> LET k == CHOOSE k \in 1..26 : SubSeq(UPPER, k, k) = c
                               IN SubSeq(LOWER, k, k)]

LowerChar(c) == IF c \in UpperSet THEN ToLower[c] ELSE c

\* the characters i..j of s in lower case (halving keeps the evaluation shallow)
RECURSIVE LowerRange(_, _, _)
LowerRange(s, i, j) ==
    IF i > j THEN ""
    ELSE IF i = j THEN LowerChar(At(s, i))
    ELSE LowerRange(s, i, (i + j) \div 2) \o LowerRange(s, (i + j) \div 2 + 1, j)

\* str.lower()
lower(s) == LowerRange(s, 1, Len(s))

SetMin(xs) == CHOOSE x \in xs : \A y \in xs : x <= y
SetMax(xs) == CHOOSE x \in xs : \A y \in xs : x >= y

\* the elements of a set of integers in increasing order
SortedSeq(xs) == AsTuple([k \in 1..Cardinality(xs) |->
                    CHOOSE x \in xs : Cardinality({y \in xs : y < x}) = k - 1])

NonSpaceAt(s) == {i \in 1..Len(s) : At(s, i) \notin SpaceSet}

\* str.strip()
strip(s) == IF NonSpaceAt(s) = {} THEN ""
            ELSE Sub(s, SetMin(NonSpaceAt(s)), SetMax(NonSpaceAt(s)))

\* s[:n] of Python
Prefix(s, n) == Sub(s, 1, n)

\* the occurrences of lit in s from position i on, each search resuming
\* after the occurrence found
RECURSIVE CountFrom(_, _, _)
CountFrom(s, lit, i) ==
    LET occ == {k \in i..Len(s) : StartsAt(s, k, lit)}
    IN IF occ = {} THEN 0 ELSE 1 + CountFrom(s, lit, SetMin(occ) + Len(lit))

\* str.count(lit): the non-overlapping occurrences of lit in s; the empty
\* string occurs between every two characters and at both ends
count(s, lit) == IF lit = "" THEN Len(s) + 1 ELSE CountFrom(s, lit, 1)

\* lit in s
contains(s, lit) == \E i \in 1..(Len(s) + 1) : StartsAt(s, i, lit)

\* the end of the run of non-whitespace characters that starts at i
WordEnd(s, i) == SetMin({j \in i..Len(s) : At(s, j + 1) \in SpaceSet \/ j = Len(s)})

\* str.split(): the maximal runs of non-whitespace characters, in order
split(s) ==
    LET starts == SortedSeq({i \in NonSpaceAt(s) : i = 1 \/ At(s, i - 1) \in SpaceSet})
    IN AsTuple([k \in 1..Len(starts) |-> Sub(s, starts[k], WordEnd(s, starts[k]))])

RECURSIVE SumSeq(_)
SumSeq(xs) == IF xs = <<>> THEN 0 ELSE Head(xs) + SumSeq(Tail(xs))

RECURSIVE ConcatRange(_, _, _)
ConcatRange(xss, i, j) ==
    IF i > j THEN <<>>
    ELSE IF i = j THEN xss[i]
    ELSE ConcatRange(xss, i, (i + j) \div 2) \o ConcatRange(xss, (i + j) \div 2 + 1, j)

\* the concatenation of a sequence of sequences
ConcatAll(xss) == ConcatRange(xss, 1, Len(xss))

Max2(a, b) == IF a >= b THEN a ELSE b
Min2(a, b) == IF a <= b THEN a ELSE b

RECURSIVE JoinRange(_, _, _, _)
JoinRange(strs, sep, i, j) ==
    IF i > j THEN ""
    ELSE IF i = j THEN strs[i]
    ELSE JoinRange(strs, sep, i, (i + j) \div 2) \o sep
         \o JoinRange(strs, sep, (i + j) \div 2 + 1, j)

\* sep.join(strs)
join(sep, strs) == JoinRange(strs, sep, 1, Len(strs))

\* str.replace(old, new) for a non-empty old: every non-overlapping
\* occurrence, found from left to right
RECURSIVE ReplaceFrom(_, _, _, _)
ReplaceFrom(s, old, new, i) ==
    LET occ == {k \in i..Len(s) : StartsAt(s, k, old)}
    IN IF occ = {} THEN Sub(s, i, Len(s))
       ELSE Sub(s, i, SetMin(occ) - 1) \o new
            \o ReplaceFrom(s, old, new, SetMin(occ) + Len(old))

replace(s, old, new) == ReplaceFrom(s, old, new, 1)

(***************************************************************************)
(* Regular expressions: syntax trees                                       *)
(***************************************************************************)
Lit(str) == [t |-> "lit", s |-> str]
Cls(chars) == [t |-> "cls", cs |-> chars, neg |-> FALSE]
NotCls(chars) == [t |-> "cls", cs |-> chars, neg |-> TRUE]
Cat(res) == [t |-> "seq", rs |-> res]
Alt(res) == [t |-> "alt", rs |-> res]
Rep(re, lo, hi) == [t |-> "rep", r |-> re, lo |-> lo, hi |-> hi, lazy |-> FALSE]
RepLazy(re, lo, hi) == [t |-> "rep", r |-> re, lo |-> lo, hi |-> hi, lazy |-> TRUE]
Grp(n, re) == [t |-> "grp", n |-> n, r |-> re]
Ahead(re) == [t |-> "la", r |-> re, neg |-> FALSE]
NotAhead(re) == [t |-> "la", r |-> re, neg |-> TRUE]
NotBehind(re, width) == [t |-> "lb", r |-> re, w |-> width, neg |-> TRUE]
Behind(re, width) == [t |-> "lb", r |-> re, w |-> width, neg |-> FALSE]
Bol == [t |-> "bol"]
Eol == [t |-> "eol"]
Wb == [t |-> "wb"]

\* no bound on a repetition: more than any text of the model is long
Inf == 1000000

Opt(re) == Rep(re, 0, 1)
Star(re) == Rep(re, 0, Inf)
Plus(re) == Rep(re, 1, Inf)
W == Cls(WordSet)
S == Cls(SpaceSet)
D == Cls(DigitSet)
Dot == NotCls({"\n"})
Lits(strs) == Alt(AsTuple([k \in 1..Len(strs) |-> Lit(strs[k])]))

(***************************************************************************)
(* The matcher.  Match(re, s, i) is the sequence of the ways re matches s  *)
(* from position i, in the order in which a backtracking matcher tries     *)
(* them: its first element is the match Python reports.  A match is        *)
(* [e |-> the position after its last character, g |-> the spans of the    *)
(* groups 1 and 2, <<0, 0>> for a group that took no part].                *)
(***************************************************************************)
NoGroups == <<<<0, 0>>, <<0, 0>>>>

IsWordAt(s, i) == At(s, i) \in WordSet

RECURSIVE Match(_, _, _, _)
RECURSIVE MatchSeq(_, _, _, _, _)
RECURSIVE MatchRep(_, _, _, _, _, _)
RECURSIVE MatchEach(_, _, _, _, _, _, _)

\* rs[k..] from position i with the groups g set so far
MatchSeq(rs, k, s, i, g) ==
    IF k > Len(rs) THEN <<[e |-> i, g |-> g]>>
    ELSE LET first == Match(rs[k], s, i, g)
         IN IF first = <<>> THEN <<>>
            ELSE IF Len(first) = 1 THEN MatchSeq(rs, k + 1, s, first[1].e, first[1].g)
            ELSE ConcatAll(AsTuple([j \in 1..Len(first) |->
                             MatchSeq(rs, k + 1, s, first[j].e, first[j].g)]))

\* how many characters from position i on belong to the class cls
RunLen(cls, s, i) ==
    LET stop == {k \in i..Len(s) : (At(s, k) \in cls.cs) = cls.neg}
    IN IF stop = {} THEN Len(s) - i + 1 ELSE SetMin(stop) - i

\* a repeated character class: the longest run first (the shortest first
\* when lazy), with no recursion over the characters
MatchClsRep(cls, lo, hi, lazy, s, i, g) ==
    LET top == Min2(RunLen(cls, s, i), hi)
    IN IF top < lo THEN <<>>
       ELSE AsTuple([j \in 1..(top - lo + 1) |->
               [e |-> IF lazy THEN i + lo + j - 1 ELSE i + top - j + 1, g |-> g]])

\* the matches of r repeated lo..hi times: each way r matches once (if it
\* consumed a character), followed by the remaining repetitions
MatchEach(r, lo, hi, lazy, s, once, j) ==
    IF j > Len(once) THEN <<>>
    ELSE MatchRep(r, Max2(lo - 1, 0), hi - 1, lazy, s, once[j])
         \o MatchEach(r, lo, hi, lazy, s, once, j + 1)

MatchRep(r, lo, hi, lazy, s, m) ==
    LET stop == IF lo = 0 THEN <<m>> ELSE <<>>
        once == IF hi > 0 THEN Match(r, s, m.e, m.g) ELSE <<>>
        \* an iteration that matched the empty string is not repeated
        prog == SelectSeq(once, LAMBDA x : x.e > m.e \/ lo > 0)
        more == MatchEach(r, lo, hi, lazy, s, prog, 1)
    IN IF lazy THEN stop \o more ELSE more \o stop

Match(re, s, i, g) ==
    CASE re.t = "lit" ->
           IF StartsAt(s, i, re.s) THEN <<[e |-> i + Len(re.s), g |-> g]>> ELSE <<>>
      [] re.t = "cls" ->
           IF i <= Len(s) /\ ((At(s, i) \in re.cs) # re.neg)
           THEN <<[e |-> i + 1, g |-> g]>> ELSE <<>>
      [] re.t = "seq" -> MatchSeq(re.rs, 1, s, i, g)
      [] re.t = "alt" -> ConcatAll(AsTuple([k \in 1..Len(re.rs) |-> Match(re.rs[k], s, i, g)]))
      [] re.t = "rep" ->
           IF re.r.t = "cls" THEN MatchClsRep(re.r, re.lo, re.hi, re.lazy, s, i, g)
           ELSE MatchRep(re.r, re.lo, re.hi, re.lazy, s, [e |-> i, g |-> g])
      [] re.t = "grp" ->
           LET inner == Match(re.r, s, i, g)
           IN AsTuple([j \in 1..Len(inner) |->
                  [e |-> inner[j].e,
                   g |-> [inner[j].g EXCEPT ![re.n] = <<i, inner[j].e>>]]])
      [] re.t = "la" ->
           IF (Match(re.r, s, i, g) # <<>>) # re.neg
           THEN <<[e |-> i, g |-> g]>> ELSE <<>>
      [] re.t = "lb" ->
           IF (i - re.w >= 1 /\ \E j \in DOMAIN Match(re.r, s, i - re.w, g) :
                                   Match(re.r, s, i - re.w, g)[j].e = i) # re.neg
           THEN <<[e |-> i, g |-> g]>> ELSE <<>>
      [] re.t = "bol" -> IF i = 1 THEN <<[e |-> i, g |-> g]>> ELSE <<>>
      [] re.t = "eol" -> IF i = Len(s) + 1 THEN <<[e |-> i, g |-> g]>> ELSE <<>>
      [] re.t = "wb" ->
           IF IsWordAt(s, i - 1) # IsWordAt(s, i)
           THEN <<[e |-> i, g |-> g]>> ELSE <<>>

\* re.match(re, s): at the start of s only
re_match(re, s) == Match(re, s, 1, NoGroups) # <<>>

\* re.search(re, s): anywhere in s
re_search(re, s) == \E i \in 1..(Len(s) + 1) : Match(re, s, i, NoGroups) # <<>>

\* re.finditer(re, s): the leftmost matches, each search resuming where the
\* last match ended (one further after an empty match); each element is
\* [b |-> start, e |-> end, g |-> groups].  hits[k] is the way the pattern
\* matches from position k.
RECURSIVE FindFrom(_, _)
FindFrom(hits, i) ==
    LET at == {k \in i..Len(hits) : hits[k] # <<>>}
    IN IF at = {} THEN <<>>
       ELSE LET b == SetMin(at)
                m == hits[b][1]
            IN <<[b |-> b, e |-> m.e, g |-> m.g]>>
               \o FindFrom(hits, IF m.e > b THEN m.e ELSE b + 1)

finditer(re, s) ==
    FindFrom(AsTuple([k \in 1..(Len(s) + 1) |-> Match(re, s, k, NoGroups)]), 1)

\* m.group(): the text of a match
group0(s, m) == Sub(s, m.b, m.e - 1)
\* m.group(n)
group(s, m, n) == Sub(s, m.g[n][1], m.g[n][2] - 1)

\* the text between the matches ms of s: before the first, between two
\* neighbours, after the last
Between(s, ms, k) ==
    Sub(s, IF k = 1 THEN 1 ELSE ms[k - 1].e,
           IF k > Len(ms) THEN Len(s) ELSE ms[k].b - 1)

\* re.split(re, s) for a pattern without groups
re_split(re, s) ==
    LET ms == finditer(re, s)
    IN AsTuple([k \in 1..(Len(ms) + 1) |-> Between(s, ms, k)])

\* re.findall(re, s) for a pattern without groups: the matched texts
findall0(re, s) ==
    LET ms == finditer(re, s)
    IN AsTuple([k \in 1..Len(ms) |-> group0(s, ms[k])])

\* re.findall(re, s) for a pattern with one group: the texts of the group
findall1(re, s) ==
    LET ms == finditer(re, s)
    IN AsTuple([k \in 1..Len(ms) |-> group(s, ms[k], 1)])

\* re.finditer(re, s) with re.IGNORECASE, for a pattern written in lower
\* case: the positions are those of s
finditer_i(re, s) == finditer(re, lower(s))

\* the elements of a sequence as a set
Range(xs) == {xs[k] : k \in 1..Len(xs)}

(***************************************************************************)
(* Verb extraction                                                         *)
(***************************************************************************)
\* the patterns with a first family that takes We as well as we
VERB_PATTERNS_any_case_we == <<
    \* [Hh]ere\s+[Ww]e\s+(\w+)
    Cat(<<Cls({"H", "h"}), Lit("ere"), Plus(S), Cls({"W", "w"}), Lit("e"), Plus(S),
          Grp(1, Plus(W))>>),
    \* (?<![Hh]ere\s)\bWe\s+(\w+)
    Cat(<<NotBehind(Cat(<<Cls({"H", "h"}), Lit("ere"), S>>), 5), Wb,
          Lit("We"), Plus(S), Grp(1, Plus(W))>>),
    \* (?:Our|This|The)\s+(?:approach|method|results?|work|study|findings?|strategy)\s+(\w+)
    Cat(<<Lits(<<"Our", "This", "The">>), Plus(S),
          Alt(<<Lit("approach"), Lit("method"), Cat(<<Lit("result"), Opt(Lit("s"))>>),
                Lit("work"), Lit("study"), Cat(<<Lit("finding"), Opt(Lit("s"))>>),
                Lit("strategy")>>),
          Plus(S), Grp(1, Plus(W))>>),
    \* (?:thereby|thus|,)\s+(enabling|establishing|...|achieving)\b
    Cat(<<Lits(<<"thereby", "thus", ",">>), Plus(S),
          Grp(1, Lits(<<"enabling", "establishing", "opening", "revealing", "overcoming",
                        "introducing", "unlocking", "harnessing", "achieving">>)),
          Wb>>) >>

VERB_PATTERNS == <<
    \* [Hh]ere\s+we\s+(\w+)
    Cat(<<Cls({"H", "h"}), Lit("ere"), Plus(S), Lit("we"), Plus(S), Grp(1, Plus(W))>>),
    \* (?<![Hh]ere\s)\bWe\s+(\w+)
    Cat(<<NotBehind(Cat(<<Cls({"H", "h"}), Lit("ere"), S>>), 5), Wb,
          Lit("We"), Plus(S), Grp(1, Plus(W))>>),
    \* (?:Our|This|The)\s+(?:approach|method|results?|work|study|findings?|strategy)\s+(\w+)
    Cat(<<Lits(<<"Our", "This", "The">>), Plus(S),
          Alt(<<Lit("approach"), Lit("method"), Cat(<<Lit("result"), Opt(Lit("s"))>>),
                Lit("work"), Lit("study"), Cat(<<Lit("finding"), Opt(Lit("s"))>>),
                Lit("strategy")>>),
          Plus(S), Grp(1, Plus(W))>>),
    \* (?:thereby|thus|,)\s+(enabling|establishing|...|achieving)\b
    Cat(<<Lits(<<"thereby", "thus", ",">>), Plus(S),
          Grp(1, Lits(<<"enabling", "establishing", "opening", "revealing", "overcoming",
                        "introducing", "unlocking", "harnessing", "achieving">>)),
          Wb>>) >>

VERB_NORMALIZE ==
    [w \in {"demonstrates", "demonstrated"} |-> "demonstrate"] @@
    [w \in {"shows", "showed", "shown"} |-> "show"] @@
    [w \in {"achieves", "achieved"} |-> "achieve"] @@
    [w \in {"enables", "enabled", "enabling"} |-> "enable"] @@
    [w \in {"reveals", "revealed", "revealing"} |-> "reveal"] @@
    [w \in {"overcomes", "overcame", "overcoming"} |-> "overcome"] @@
    [w \in {"introduces", "introduced", "introducing"} |-> "introduce"] @@
    [w \in {"establishes", "established", "establishing"} |-> "establish"] @@
    [w \in {"presents", "presented", "presenting"} |-> "present"] @@
    [w \in {"reports", "reported", "reporting"} |-> "report"] @@
    [w \in {"develops", "developed", "developing"} |-> "develop"] @@
    [w \in {"provides", "provided", "providing"} |-> "provide"] @@
    [w \in {"opens", "opened", "opening"} |-> "open"] @@
    [w \in {"unlocks", "unlocked", "unlocking"} |-> "unlock"] @@
    [w \in {"harnesses", "harnessed", "harnessing"} |-> "harness"] @@
    [w \in {"uses", "used", "using"} |-> "use"] @@
    [w \in {"designs", "designed", "designing"} |-> "design"] @@
    [w \in {"proves", "proved", "proving"} |-> "prove"]

STOP_VERBS == {
    "is", "are", "was", "were", "be", "been", "being",
    "have", "has", "had", "having",
    "do", "does", "did",
    "can", "could", "will", "would", "shall", "should", "may", "might",
    "also", "further", "not", "here",
    "substantially", "recently", "simultaneously", "previously",
    "including", "posing", "making", "focusing", "arising",
    "offering", "requiring", "leading", "limiting", "resulting" }

\* the lookup left out
NormalizeVerb_identity(verb) == verb

\* VERB_NORMALIZE.get(verb, verb)
NormalizeVerb(verb) == IF verb \in DOMAIN VERB_NORMALIZE THEN VERB_NORMALIZE[verb] ELSE verb

\* the verbs one pattern contributes, in the order of its matches
VerbsOfPattern(pattern, text) ==
    LET ms == finditer(pattern, text)
        verb(m) == NormalizeVerb(lower(group(text, m, 1)))
    IN AsTuple([k \in 1..Len(SelectSeq(ms, LAMBDA m : verb(m) \notin STOP_VERBS /\ Len(verb(m)) > 2))
          |-> verb(SelectSeq(ms, LAMBDA m : verb(m) \notin STOP_VERBS /\ Len(verb(m)) > 2)[k])])

extract_verbs(text) ==
    ConcatAll(AsTuple([p \in 1..Len(VERB_PATTERNS) |-> VerbsOfPattern(VERB_PATTERNS[p], text)]))

(***************************************************************************)
(* Opening / closing classification                                        *)
(***************************************************************************)
\* ^(despite|although|the\s+(challenge|problem|limitation|lack|difficulty))
RE_problem_first ==
    Cat(<<Bol, Alt(<<Lit("despite"), Lit("although"),
                     Cat(<<Lit("the"), Plus(S),
                           Lits(<<"challenge", "problem", "limitation", "lack",
                                  "difficulty">>)>>)>>)>>)

\* ^(the\s+ability|achieving|controlling|harnessing)
RE_bold_claim ==
    Cat(<<Bol, Alt(<<Cat(<<Lit("the"), Plus(S), Lit("ability")>>),
                     Lit("achieving"), Lit("controlling"), Lit("harnessing")>>)>>)

\* ^\w[\w\s,-]+\s+(offer|provide|enable|allow|permit)
RE_function_first ==
    Cat(<<Bol, W, Plus(Cls(WordSet \cup SpaceSet \cup {",", "-"})), Plus(S),
          Lits(<<"offer", "provide", "enable", "allow", "permit">>)>>)

\* classify_opening with the function-first rule tried before the others
classify_opening_function_first(s0) ==
    LET s == strip(lower(s0))
    IN IF re_match(RE_function_first, s) THEN "function-first"
       ELSE IF re_match(RE_problem_first, s) THEN "problem-first"
       ELSE IF re_match(RE_bold_claim, s) THEN "bold-claim"
       ELSE "object-first"

classify_opening(sentence) ==
    LET s == strip(lower(sentence))
    IN IF re_match(RE_problem_first, s) THEN "problem-first"
       ELSE IF re_match(RE_bold_claim, s) THEN "bold-claim"
       ELSE IF re_match(RE_function_first, s) THEN "function-first"
       ELSE "object-first"

\* open[s]?\s+(a\s+)?pathway|pave[s]?\s+the\s+way|open[s]?\s+.*(route|prospect|door|possibilit)
RE_pathway ==
    Alt(<<Cat(<<Lit("open"), Opt(Cls({"s"})), Plus(S), Opt(Cat(<<Lit("a"), Plus(S)>>)),
                Lit("pathway")>>),
          Cat(<<Lit("pave"), Opt(Cls({"s"})), Plus(S), Lit("the"), Plus(S), Lit("way")>>),
          Cat(<<Lit("open"), Opt(Cls({"s"})), Plus(S), Star(Dot),
                Lits(<<"route", "prospect", "door", "possibilit">>)>>)>>)

\* promis|potential|exciting|great promise
RE_promise == Lits(<<"promis", "potential", "exciting", "great promise">>)

\* establish|paradigm|new\s+platform|framework|make[s]?\s+this
RE_paradigm ==
    Alt(<<Lit("establish"), Lit("paradigm"),
          Cat(<<Lit("new"), Plus(S), Lit("platform")>>),
          Lit("framework"),
          Cat(<<Lit("make"), Opt(Cls({"s"})), Plus(S), Lit("this")>>)>>)

\* application|sensing|imaging|device|technolog|commerc|future\s+direction
RE_application ==
    Alt(<<Lit("application"), Lit("sensing"), Lit("imaging"), Lit("device"),
          Lit("technolog"), Lit("commerc"),
          Cat(<<Lit("future"), Plus(S), Lit("direction")>>)>>)

\* \d+-fold|\d+\s*%|factor\s+of
RE_quantitative ==
    Alt(<<Cat(<<Plus(D), Lit("-fold")>>),
          Cat(<<Plus(D), Star(S), Lit("%")>>),
          Cat(<<Lit("factor"), Plus(S), Lit("of")>>)>>)

\* avenue|enable|novel.*science|suitable.*platform|expand.*scope
RE_outlook ==
    Alt(<<Lit("avenue"), Lit("enable"),
          Cat(<<Lit("novel"), Star(Dot), Lit("science")>>),
          Cat(<<Lit("suitable"), Star(Dot), Lit("platform")>>),
          Cat(<<Lit("expand"), Star(Dot), Lit("scope")>>)>>)

\* classify_closing with the application rule tried before the paradigm rule
classify_closing_application_first(s0) ==
    LET s == strip(lower(s0))
    IN IF re_search(RE_pathway, s) THEN "pathway"
       ELSE IF re_search(RE_promise, s) THEN "promise"
       ELSE IF re_search(RE_application, s) THEN "application"
       ELSE IF re_search(RE_paradigm, s) THEN "paradigm"
       ELSE IF re_search(RE_quantitative, s) THEN "quantitative-recap"
       ELSE IF re_search(RE_outlook, s) THEN "outlook"
       ELSE "other"

classify_closing(sentence) ==
    LET s == strip(lower(sentence))
    IN IF re_search(RE_pathway, s) THEN "pathway"
       ELSE IF re_search(RE_promise, s) THEN "promise"
       ELSE IF re_search(RE_paradigm, s) THEN "paradigm"
       ELSE IF re_search(RE_application, s) THEN "application"
       ELSE IF re_search(RE_quantitative, s) THEN "quantitative-recap"
       ELSE IF re_search(RE_outlook, s) THEN "outlook"
       ELSE "other"

(***************************************************************************)
(* N-gram extraction                                                       *)
(***************************************************************************)
\* re.findall(r'[a-z][a-z\-]+[a-z]', text.lower())
tokenize(text) ==
    findall0(Cat(<<Cls(LowerSet), Plus(Cls(LowerSet \cup {"-"})), Cls(LowerSet)>>),
             lower(text))

STOPWORDS == {
    "the", "and", "for", "that", "this", "with", "from", "are", "was",
    "were", "been", "being", "have", "has", "had", "its", "our", "their",
    "which", "these", "those", "but", "not", "can", "also", "such",
    "than", "into", "over", "between", "through", "using", "via",
    "here", "both", "well", "each", "more", "most", "however",
    "yet", "although", "while", "when", "where", "how", "what" }

\* the windows of n tokens that start at the positions kept by the filter
\* the windows taken over the tokens that pass the filter
extract_ngrams_filtered_first(text, n) ==
    LET tokens == SelectSeq(tokenize(text), LAMBDA t : t \notin STOPWORDS /\ Len(t) >= 3)
    IN AsTuple([i \in 1..(Len(tokens) - n + 1) |->
           join(" ", AsTuple([k \in 1..n |-> tokens[i + k - 1]]))])

extract_ngrams(text, n) ==
    LET tokens == tokenize(text)
        keep(i) == \A k \in i..(i + n - 1) :
                      tokens[k] \notin STOPWORDS /\ Len(tokens[k]) >= 3
        starts == SortedSeq({i \in 1..(Len(tokens) - n + 1) : keep(i)})
    IN AsTuple([j \in 1..Len(starts) |->
           join(" ", AsTuple([k \in 1..n |-> tokens[starts[j] + k - 1]]))])

(***************************************************************************)
(* Numbers.  A value with d decimals is kept as the integer value * 10^d.  *)
(***************************************************************************)
\* round(a / b) for b > 0: the nearest integer, a tie going to the even one
\* (round() of an exact tie; a quotient that is a tie in decimal but not in
\* binary floating point may be rounded the other way by the code)
RoundDiv(a, b) ==
    LET q == (2 * a + b) \div (2 * b)
    IN IF (2 * a + b) % (2 * b) = 0 /\ q % 2 = 1 THEN q - 1 ELSE q

\* math.log(n) * 10^4 for n = 1..12, rounded
LN4 == <<0, 6931, 10986, 13863, 16094, 17918, 19459, 20794, 21972, 23026, 23979, 24849>>

(***************************************************************************)
(* Topic alignment                                                         *)
(***************************************************************************)
\* the keys of keyword_scores in insertion order: each keyword once, at the
\* place of its first occurrence in the list
DictKeys(keys) ==
    LET firsts == SortedSeq({i \in 1..Len(keys) : \A j \in 1..(i - 1) : keys[j] # keys[i]})
    IN AsTuple([k \in 1..Len(firsts) |-> keys[firsts[k]]])

\* sum(1 for text in abstract_texts if kw_lower in text.lower())
DocFreq(kw, abstract_texts) ==
    Cardinality({d \in 1..Len(abstract_texts) : contains(lower(abstract_texts[d]), lower(kw))})

\* sum(text.lower().count(kw_lower) for text in abstract_texts)
TotalFreq(kw, abstract_texts) ==
    SumSeq(AsTuple([d \in 1..Len(abstract_texts) |-> count(lower(abstract_texts[d]), lower(kw))]))

\* math.log(n_docs / (1 + doc_freq)) if doc_freq > 0 else 0, times 10^4
\* log(N / df): the logarithm without the 1 added to the document frequency
Idf_unsmoothed(n_docs, doc_freq) == IF doc_freq > 0 THEN LN4[n_docs] - LN4[doc_freq] ELSE 0

Idf(n_docs, doc_freq) == IF doc_freq > 0 THEN LN4[n_docs] - LN4[1 + doc_freq] ELSE 0

\* round(total_freq * idf, 2) if doc_freq > 0 else 0, times 100
TfIdf(n_docs, doc_freq, total_freq) ==
    IF doc_freq > 0 THEN RoundDiv(total_freq * Idf(n_docs, doc_freq), 100) ELSE 0

KeywordScore(kw, abstract_texts) ==
    LET n_docs == Len(abstract_texts)
        doc_freq == DocFreq(kw, abstract_texts)
        total_freq == TotalFreq(kw, abstract_texts)
    IN [kw |-> kw, doc_frequency |-> doc_freq, total_mentions |-> total_freq,
        tf_idf |-> TfIdf(n_docs, doc_freq, total_freq),
        coverage |-> <<doc_freq, n_docs>>]

\* min(100, (total_tfidf / max(max_possible, 1)) * 100) rounded to one
\* decimal, times 10; total_tfidf is in hundredths
AlignmentPct(total_tfidf, n_docs) ==
    LET max_possible == n_docs * LN4[n_docs]
    IN Min2(1000, RoundDiv(total_tfidf * 100000, Max2(max_possible, 10000)))

\* The result of compute_topic_alignment: the score (times 10), the keyword
\* detail (the dict as the sequence of its values in insertion order), and how
\* many logarithms and divisions the call evaluated; raised is the exception
\* the call ends in, "" when it returns.
AlignmentBody(manuscript_keywords, abstract_texts) ==
    LET n_docs == Len(abstract_texts)
        keys == DictKeys(manuscript_keywords)
        keyword_scores == AsTuple([k \in 1..Len(keys) |-> KeywordScore(keys[k], abstract_texts)])
        total_tfidf == SumSeq(AsTuple([k \in 1..Len(keys) |-> keyword_scores[k].tf_idf]))
        n_idf == Cardinality({k \in 1..Len(manuscript_keywords) :
                                 DocFreq(manuscript_keywords[k], abstract_texts) > 0})
    IN IF n_docs = 0
       THEN \* math.log(0) at line 188
            [score |-> 0, detail |-> keyword_scores, logs |-> 1, divs |-> 0,
             raised |-> "ValueError"]
       ELSE [score |-> AlignmentPct(total_tfidf, n_docs), detail |-> keyword_scores,
             logs |-> n_idf + 1, divs |-> n_idf + 1, raised |-> ""]

\* the body without the guard of lines 166-167
compute_topic_alignment_unguarded(manuscript_keywords, abstract_texts) ==
    AlignmentBody(manuscript_keywords, abstract_texts)

compute_topic_alignment(manuscript_keywords, abstract_texts) ==
    IF Len(abstract_texts) = 0
    THEN [score |-> 0, detail |-> <<>>, logs |-> 0, divs |-> 0, raised |-> ""]
    ELSE AlignmentBody(manuscript_keywords, abstract_texts)

(***************************************************************************)
(* Discourse: hedging                                                      *)
(***************************************************************************)
\* \bword\b
Word(str) == Cat(<<Wb, Lit(str), Wb>>)

HEDGE_CATEGORIES ==
    <<"ability", "permission", "promise", "epistemic", "approximation", "tentative">>

HEDGE_LEXICON ==
    [ability |-> <<Word("able to"), Word("capable of"),
                   \* \bcan\b(?!not)
                   Cat(<<Wb, Lit("can"), Wb, NotAhead(Lit("not"))>>)>>,
     permission |-> <<Word("permitting"), Word("allowing"), Word("enabling")>>,
     promise |-> <<Word("promising"), Word("promise"), Word("paving the way"),
                   \* \bopening.*?(?:avenues?|doors?|possibilit)\b
                   Cat(<<Wb, Lit("opening"), RepLazy(Dot, 0, Inf),
                         Alt(<<Cat(<<Lit("avenue"), Opt(Lit("s"))>>),
                               Cat(<<Lit("door"), Opt(Lit("s"))>>),
                               Lit("possibilit")>>),
                         Wb>>)>>,
     epistemic |-> <<Word("may"), Word("might"),
                     \* \bsuggest(?:s|ing)?\b
                     Cat(<<Wb, Lit("suggest"), Opt(Lits(<<"s", "ing">>)), Wb>>),
                     \* \bindicat(?:es?|ing)\b
                     Cat(<<Wb, Lit("indicat"),
                           Alt(<<Cat(<<Lit("e"), Opt(Lit("s"))>>), Lit("ing")>>), Wb>>),
                     Word("potentially"), Word("possibly"), Word("likely")>>,
     approximation |-> <<Word("approximately"), Word("about"), Lit("~"), Word("nearly"),
                         Word("roughly")>>,
     tentative |-> <<Word("to our knowledge"), Word("believe"), Word("consistent with"),
                     Word("compatible with")>>]

\* the matches of one category: pattern after pattern, each in text order;
\* every element is [b, e, g] with the span of the match in the text
HedgeMatches(category, text) ==
    LET patterns == HEDGE_LEXICON[category]
    IN ConcatAll(AsTuple([p \in 1..Len(patterns) |-> finditer(patterns[p], lower(text))]))

\* detect_hedges: total is the total count, cats the per-category
\* [count, examples] in the order of the lexicon
detect_hedges(text) ==
    LET t_lower == lower(text)
        info(category) ==
            LET ms == HedgeMatches(category, text)
            IN [count |-> Len(ms),
                examples |-> AsTuple([k \in 1..Min2(3, Len(ms)) |-> group0(t_lower, ms[k])])]
        cats == AsTuple([k \in 1..Len(HEDGE_CATEGORIES) |-> info(HEDGE_CATEGORIES[k])])
    IN [total |-> SumSeq(AsTuple([k \in 1..Len(cats) |-> cats[k].count])), cats |-> cats]

\* a density whose hedge count is cut at the number of sentences
hedge_density_truncated(text, n_sentences) ==
    RoundDiv(Min2(detect_hedges(text).total, n_sentences) * 100, Max2(n_sentences, 1))

\* round(total / max(n_sentences, 1), 2), times 100
hedge_density(text, n_sentences) ==
    RoundDiv(detect_hedges(text).total * 100, Max2(n_sentences, 1))

(***************************************************************************)
(* Discourse: information density                                          *)
(***************************************************************************)
\* re.sub(r'(\d)\.(\d)', r'\1DECIMAL_PLACEHOLDER\2', t)
ProtectDecimals(t) ==
    LET ms == finditer(Cat(<<Grp(1, D), Lit("."), Grp(2, D)>>), t)
    IN join("", AsTuple([k \in 1..Len(ms) |->
                    Between(t, ms, k) \o group(t, ms[k], 1) \o "DECIMAL_PLACEHOLDER"
                    \o group(t, ms[k], 2)]))
       \o Between(t, ms, Len(ms) + 1)

\* re.sub(r'(\d)DECIMAL_PLACEHOLDER(\d)', r'\1.\2', s)
RestoreDecimals(t) ==
    LET ms == finditer(Cat(<<Grp(1, D), Lit("DECIMAL_PLACEHOLDER"), Grp(2, D)>>), t)
    IN join("", AsTuple([k \in 1..Len(ms) |->
                    Between(t, ms, k) \o group(t, ms[k], 1) \o "." \o group(t, ms[k], 2)]))
       \o Between(t, ms, Len(ms) + 1)

\* the protection without the abbreviation placeholders
Protect_decimals_only(text) == ProtectDecimals(text)

Protect(text) ==
    ProtectDecimals(
        replace(replace(replace(replace(replace(text,
            "e.g.", "EG_PLACEHOLDER"),
            "i.e.", "IE_PLACEHOLDER"),
            "et al.", "ETAL_PLACEHOLDER"),
            "Fig.", "FIG_PLACEHOLDER"),
            "Ext.", "EXT_PLACEHOLDER"))

Restore(t) ==
    strip(RestoreDecimals(
        replace(replace(replace(replace(replace(t,
            "EG_PLACEHOLDER", "e.g."),
            "IE_PLACEHOLDER", "i.e."),
            "ETAL_PLACEHOLDER", "et al."),
            "FIG_PLACEHOLDER", "Fig."),
            "EXT_PLACEHOLDER", "Ext.")))

\* (?<=[.!?])\s+(?=[A-Z])
RE_sentence_end ==
    Cat(<<Behind(Cls({".", "!", "?"}), 1), Plus(S), Ahead(Cls(UpperSet))>>)

\* the split without the final filter on empty sentences
split_sentences_keep_empty(text) ==
    LET sents == re_split(RE_sentence_end, Protect(text))
    IN AsTuple([k \in 1..Len(sents) |-> Restore(sents[k])])

split_sentences(text) ==
    LET sents == re_split(RE_sentence_end, Protect(text))
        restored == AsTuple([k \in 1..Len(sents) |-> Restore(sents[k])])
    IN SelectSeq(restored, LAMBDA r : r # "")

\* \b([A-Z][A-Z0-9]{1,5})\b
RE_acronym ==
    Cat(<<Wb, Grp(1, Cat(<<Cls(UpperSet), Rep(Cls(UpperSet \cup DigitSet), 1, 5)>>)), Wb>>)

\* \d+(?:\.\d+)?\s*(?:[-x]fold|cm-1|nm|MHz|ms|us|%|samples?|biomarkers?); the
\* alternatives of the source that need a character outside ASCII (the
\* multiplication sign, superscripts, the micro sign) match no ASCII text
\* and are left out
RE_number_unit ==
    Cat(<<Plus(D), Opt(Cat(<<Lit("."), Plus(D)>>)), Star(S),
          Alt(<<Lit("-fold"), Lit("nm"), Lit("MHz"), Lit("ms"), Lit("%"),
                Cat(<<Lit("sample"), Opt(Lit("s"))>>),
                Cat(<<Lit("biomarker"), Opt(Lit("s"))>>)>>)>>)

\* (?:more than|greater than|>)\s*\d+ with re.IGNORECASE
RE_comparator ==
    Cat(<<Lits(<<"more than", "greater than", ">">>), Star(S), Plus(D)>>)

\* ^[A-Z][a-z]{3,}$
RE_proper_noun == Cat(<<Bol, Cls(UpperSet), Rep(Cls(LowerSet), 3, Inf), Eol>>)

Letters == Cls(UpperSet \cup LowerSet)

\* \b([a-zA-Z]+-[a-zA-Z]+(?:-[a-zA-Z]+)*)\b
RE_hyphenated ==
    Cat(<<Wb, Grp(1, Cat(<<Plus(Letters), Lit("-"), Plus(Letters),
                           Star(Cat(<<Lit("-"), Plus(Letters)>>))>>)), Wb>>)

\* \b(spectral|...|quantum)\s+(resolution|...|sample\w*)\b with re.IGNORECASE
RE_domain_phrase ==
    Cat(<<Wb,
          Grp(1, Lits(<<"spectral", "temporal", "spatial", "optical", "molecular",
                        "vibrational", "clinical", "biological", "quantum">>)),
          Plus(S),
          Grp(2, Alt(<<Lit("resolution"), Lit("fidelity"), Lit("bandwidth"),
                       Lit("sensitivity"), Lit("interference"),
                       Cat(<<Lit("fingerprint"), Star(W)>>),
                       Lit("analysis"), Lit("imaging"), Lit("detection"),
                       Lit("scattering"), Lit("tissue"),
                       Cat(<<Lit("sample"), Star(W)>>)>>)),
          Wb>>)

\* the set of tagged strings of a sentence
IUSet(sentence) ==
    LET words == split(sentence)
    IN {"ACRO:" \o m : m \in Range(findall1(RE_acronym, sentence)) \ {"A", "I", "We"}}
       \cup {"NUM:" \o strip(m) : m \in Range(findall0(RE_number_unit, sentence))}
       \cup {"NUM:" \o strip(group0(sentence, m)) :
                m \in Range(finditer_i(RE_comparator, sentence))}
       \cup {"PROP:" \o words[i] :
                i \in {i \in 2..Len(words) : re_match(RE_proper_noun, words[i])}}
       \cup {"HYPH:" \o lower(m) :
                m \in {m \in Range(findall1(RE_hyphenated, sentence)) : Len(m) >= 6}}
       \cup {"NP:" \o lower(group(sentence, m, 1)) \o " " \o lower(group(sentence, m, 2)) :
                m \in Range(finditer_i(RE_domain_phrase, sentence))}

\* list(iu_set): the elements of the set in the order in which the set
\* iterates, which depends on the hash seed of the process: the seed picks
\* one of the permutations of an enumeration of the set.
RECURSIVE SomeOrder(_)
SomeOrder(set) ==
    IF set = {} THEN <<>>
    ELSE LET x == CHOOSE x \in set : TRUE IN <<x>> \o SomeOrder(set \ {x})

RECURSIVE Permuted(_, _)
Permuted(q, code) ==
    IF q = <<>> THEN <<>>
    ELSE LET i == (code % Len(q)) + 1
         IN <<q[i]>> \o Permuted(SubSeq(q, 1, i - 1) \o SubSeq(q, i + 1, Len(q)),
                                 code \div Len(q))

SetIterationOrder(set, hashseed) == Permuted(SomeOrder(set), hashseed)

\* the arguments of the iu_set.add calls of a sentence, in the order of the
\* calls: rule after rule, every match of a rule with its tag
IUTags(sentence) ==
    LET words == split(sentence)
        acronyms == SelectSeq(findall1(RE_acronym, sentence),
                              LAMBDA m : m \notin {"A", "I", "We"})
        numbers == findall0(RE_number_unit, sentence)
        comparators == finditer_i(RE_comparator, sentence)
        proper == SortedSeq({i \in 2..Len(words) : re_match(RE_proper_noun, words[i])})
        hyphenated == SelectSeq(findall1(RE_hyphenated, sentence), LAMBDA m : Len(m) >= 6)
        phrases == finditer_i(RE_domain_phrase, sentence)
    IN AsTuple([k \in 1..Len(acronyms) |-> "ACRO:" \o acronyms[k]])
       \o AsTuple([k \in 1..Len(numbers) |-> "NUM:" \o strip(numbers[k])])
       \o AsTuple([k \in 1..Len(comparators) |->
              "NUM:" \o strip(group0(sentence, comparators[k]))])
       \o AsTuple([k \in 1..Len(proper) |-> "PROP:" \o words[proper[k]]])
       \o AsTuple([k \in 1..Len(hyphenated) |-> "HYPH:" \o lower(hyphenated[k])])
       \o AsTuple([k \in 1..Len(phrases) |->
              "NP:" \o lower(group(sentence, phrases[k], 1)) \o " "
                    \o lower(group(sentence, phrases[k], 2))])

\* a count of the matches of the five rules, one per iu_set.add call
count_information_units_raw(sentence, hashseed) ==
    [count |-> Len(IUTags(sentence)),
     items |-> SetIterationOrder(IUSet(sentence), hashseed)]

\* return len(iu_set), list(iu_set)
IUResult(iu_set, hashseed) ==
    [count |-> Cardinality(iu_set), items |-> SetIterationOrder(iu_set, hashseed)]

count_information_units(sentence, hashseed) == IUResult(IUSet(sentence), hashseed)

\* densities.index(max(densities)), 0-based
PeakIndex(densities) ==
    SetMin({i \in 1..Len(densities) :
               \A j \in 1..Len(densities) : densities[j] <= densities[i]}) - 1

\* a classification that looks at the place of the peak before its height
Shape_position_first(densities) ==
    LET n == Len(densities)
        peak_idx == PeakIndex(densities)
        mid == SubSeq(densities, n \div 3 + 1, (2 * n) \div 3)
        edge_sum == SumSeq(SubSeq(densities, 1, n \div 3))
                    + SumSeq(SubSeq(densities, (2 * n) \div 3 + 1, n))
    IN IF 10 * peak_idx <= 3 * n THEN "front-loaded"
       ELSE IF 10 * peak_idx >= 7 * n THEN "back-loaded"
       ELSE IF densities[peak_idx + 1] > 6 THEN "spiky"
       ELSE IF 10 * SumSeq(mid) * Max2(n - Len(mid), 1) > 12 * edge_sum * Max2(Len(mid), 1)
            THEN "bell"
       ELSE "flat"

\* a classification in which a middle mean equal to 1.2 times the edge mean
\* makes a bell
Shape_nonstrict(densities) ==
    LET n == Len(densities)
        peak_idx == PeakIndex(densities)
        mid == SubSeq(densities, n \div 3 + 1, (2 * n) \div 3)
        edge_sum == SumSeq(SubSeq(densities, 1, n \div 3))
                    + SumSeq(SubSeq(densities, (2 * n) \div 3 + 1, n))
    IN IF densities[peak_idx + 1] > 6 THEN "spiky"
       ELSE IF 10 * peak_idx <= 3 * n THEN "front-loaded"
       ELSE IF 10 * peak_idx >= 7 * n THEN "back-loaded"
       ELSE IF 10 * SumSeq(mid) * Max2(n - Len(mid), 1) >= 12 * edge_sum * Max2(Len(mid), 1)
            THEN "bell"
       ELSE "flat"

\* the shape of a profile of n >= 3 sentences; a mean is compared as a
\* fraction: a / b > (c / d) * 1.2  iff  10 * a * d > 12 * c * b
Shape(densities) ==
    LET n == Len(densities)
        peak_idx == PeakIndex(densities)
        max_iu == densities[peak_idx + 1]
        mid == SubSeq(densities, n \div 3 + 1, (2 * n) \div 3)
        mid_sum == SumSeq(mid)
        mid_len == Max2(Len(mid), 1)
        edge_sum == SumSeq(SubSeq(densities, 1, n \div 3))
                    + SumSeq(SubSeq(densities, (2 * n) \div 3 + 1, n))
        edge_len == Max2(n - Len(mid), 1)
    IN IF max_iu > 6 THEN "spiky"
       ELSE IF 10 * peak_idx <= 3 * n THEN "front-loaded"
       ELSE IF 10 * peak_idx >= 7 * n THEN "back-loaded"
       ELSE IF 10 * mid_sum * edge_len > 12 * edge_sum * mid_len THEN "bell"
       ELSE "flat"

\* what info_density_profile returns for the sentences of a text and the
\* information units counted in each of them (lines 341-374)
ProfileOfUnits(sentences, units) ==
    LET densities == AsTuple([k \in 1..Len(sentences) |-> units[k].count])
        details == AsTuple([k \in 1..Len(sentences) |->
                       [sentence |-> Prefix(sentences[k], 80),
                        iu_count |-> units[k].count, iu_items |-> units[k].items]])
    IN IF sentences = <<>> THEN [densities |-> <<>>, shape |-> "empty", details |-> <<>>]
       ELSE IF Len(densities) < 3
            THEN [densities |-> densities, shape |-> "short", details |-> details]
       ELSE [densities |-> densities, shape |-> Shape(densities), details |-> details]

\* the loop over the sentences (lines 346-349)
ProfileOfSentences(sentences, hashseed) ==
    ProfileOfUnits(sentences,
                   AsTuple([k \in 1..Len(sentences) |->
                       count_information_units(sentences[k], hashseed)]))

info_density_profile(text, hashseed) ==
    ProfileOfSentences(split_sentences(text), hashseed)

(***************************************************************************)
(* Discourse: domain-shift markers                                         *)
(***************************************************************************)
DOMAIN_SHIFT_PATTERNS == <<
    \* (?i)as a (?:medical|clinical|practical|industrial) (?:application|demonstration|validation)
    Cat(<<Lit("as a "), Lits(<<"medical", "clinical", "practical", "industrial">>),
          Lit(" "), Lits(<<"application", "demonstration", "validation">>)>>),
    \* (?i)for (?:clinical|practical|industrial|medical) (?:use|deployment|validation|translation)
    Cat(<<Lit("for "), Lits(<<"clinical", "practical", "industrial", "medical">>),
          Lit(" "), Lits(<<"use", "deployment", "validation", "translation">>)>>),
    \* (?i)in (?:clinical|in vivo|ex vivo|human|patient) (?:settings?|samples?|tests?|studies|trials?)
    Cat(<<Lit("in "), Lits(<<"clinical", "in vivo", "ex vivo", "human", "patient">>),
          Lit(" "),
          Alt(<<Cat(<<Lit("setting"), Opt(Lit("s"))>>), Cat(<<Lit("sample"), Opt(Lit("s"))>>),
                Cat(<<Lit("test"), Opt(Lit("s"))>>), Lit("studies"),
                Cat(<<Lit("trial"), Opt(Lit("s"))>>)>>)>>),
    \* (?i)towards? (?:clinical|practical|medical|real-world)
    Cat(<<Lit("toward"), Opt(Lit("s")), Lit(" "),
          Lits(<<"clinical", "practical", "medical", "real-world">>)>>),
    \* (?i)we (?:further|also) (?:demonstrate|show|apply|validate)
    Cat(<<Lit("we "), Lits(<<"further", "also">>), Lit(" "),
          Lits(<<"demonstrate", "show", "apply", "validate">>)>>) >>

\* the markers of a text: pattern after pattern, each in text order
detect_domain_shifts(text) ==
    ConcatAll(AsTuple([p \in 1..Len(DOMAIN_SHIFT_PATTERNS) |->
        LET ms == finditer_i(DOMAIN_SHIFT_PATTERNS[p], text)
        IN AsTuple([k \in 1..Len(ms) |->
               [match |-> group0(text, ms[k]), position |-> ms[k].b - 1, pattern |-> p]])]))

(***************************************************************************)
(* Python containers                                                       *)
(***************************************************************************)
\* Counter(items): the distinct items in the order of their first
\* occurrence, each with the number of its occurrences
Counter(items) ==
    LET keys == DictKeys(items)
    IN AsTuple([k \in 1..Len(keys) |->
           [key |-> keys[k],
            count |-> Cardinality({i \in 1..Len(items) : items[i] = keys[k]})]])

\* the place of entry i of a counter when sorted by count, larger first,
\* entries with equal counts staying in the order of the counter
Rank(counter, i) ==
    1 + Cardinality({j \in 1..Len(counter) :
                        \/ counter[j].count > counter[i].count
                        \/ counter[j].count = counter[i].count /\ j < i})

\* a ranking in which entries with equal counts come in the reverse of the
\* order of the counter
most_common_ties_reversed(counter, n) ==
    LET rank(i) == 1 + Cardinality({j \in 1..Len(counter) :
                          \/ counter[j].count > counter[i].count
                          \/ counter[j].count = counter[i].count /\ j > i})
        sorted == AsTuple([p \in 1..Len(counter) |->
                      counter[CHOOSE i \in 1..Len(counter) : rank(i) = p]])
    IN SubSeq(sorted, 1, Min2(n, Len(counter)))

\* Counter.most_common(n)
most_common(counter, n) ==
    LET sorted == AsTuple([p \in 1..Len(counter) |->
                      counter[CHOOSE i \in 1..Len(counter) : Rank(counter, i) = p]])
    IN SubSeq(sorted, 1, Min2(n, Len(counter)))

\* sorted(xs) of a sequence of integers
Sorted(xs) ==
    LET place(i) == 1 + Cardinality({j \in 1..Len(xs) :
                                        xs[j] < xs[i] \/ (xs[j] = xs[i] /\ j < i)})
    IN AsTuple([p \in 1..Len(xs) |-> xs[CHOOSE i \in 1..Len(xs) : place(i) = p]])

SeqMin(xs) == SetMin(Range(xs))
SeqMax(xs) == SetMax(Range(xs))

\* xs[:n] of a list
Take(xs, n) == SubSeq(xs, 1, Min2(n, Len(xs)))

(***************************************************************************)
(* The corpus.  An abstract record is [doi, title, full_abstract,          *)
(* sentences, sentence_count]: full_abstract is "" when the record has no  *)
(* text; sentences is [kind, items] with kind "absent" (no such key),      *)
(* "null" (the key with a null value) or "list"; sentence_count is 0 when  *)
(* the key is absent, null or 0, which a.get('sentence_count', 0) or ...   *)
(* treats alike.                                                           *)
(***************************************************************************)
\* fetch_learning_abstracts.py:
\* \b(Fig|Figs|Ref|Refs|et al|i\.e|e\.g|vs|Dr|Mr|Mrs|etc)\.
RE_fetch_abbreviation ==
    Cat(<<Wb, Lits(<<"Fig", "Figs", "Ref", "Refs", "et al", "i.e", "e.g", "vs", "Dr",
                     "Mr", "Mrs", "etc">>), Lit(".")>>)

ProtectDots(text) ==
    LET ms == finditer(RE_fetch_abbreviation, text)
    IN join("", AsTuple([k \in 1..Len(ms) |->
                    Between(text, ms, k) \o replace(group0(text, ms[k]), ".", "<DOT>")]))
       \o Between(text, ms, Len(ms) + 1)

\* fetch_learning_abstracts.py: the splitter that fills sentences
split_into_sentences(text) ==
    LET sentences == re_split(RE_sentence_end, ProtectDots(text))
        kept == SelectSeq(sentences, LAMBDA x : strip(x) # "")
    IN AsTuple([k \in 1..Len(kept) |-> strip(replace(kept[k], "<DOT>", "."))])

\* str(n) for 0 <= n < 100
Str(n) ==
    LET digit(d) == Sub(DIGITS, d + 1, d + 1)
    IN IF n < 10 THEN digit(n) ELSE digit(n \div 10) \o digit(n % 10)

\* the record fetch_learning_abstracts.py writes for an article
FetchRecord(doi, title, abstract_text) ==
    LET sentences == IF abstract_text # "" THEN split_into_sentences(abstract_text)
                     ELSE <<>>
    IN [doi |-> doi, title |-> title, full_abstract |-> abstract_text,
        sentences |-> [kind |-> "list",
                       items |-> AsTuple([j \in 1..Len(sentences) |->
                                     [position |-> "S" \o Str(j), text |-> sentences[j]]])],
        sentence_count |-> Len(sentences)]

\* a record with the text only: sentences and sentence_count are optional
BareRecord(doi, title, abstract_text) ==
    [doi |-> doi, title |-> title, full_abstract |-> abstract_text,
     sentences |-> [kind |-> "absent", items |-> <<>>], sentence_count |-> 0]

\* a record whose sentences key holds a null
NullRecord(doi, title, abstract_text) ==
    [doi |-> doi, title |-> title, full_abstract |-> abstract_text,
     sentences |-> [kind |-> "null", items |-> <<>>], sentence_count |-> 0]

(***************************************************************************)
(* analyze: the sections of the report                                     *)
(***************************************************************************)
\* the corpus taken whole, without the filter on the text
Valid_unfiltered(abstracts) == abstracts

\* [a for a in abstracts if a.get('full_abstract')]
Valid(abstracts) == SelectSeq(abstracts, LAMBDA a : a.full_abstract # "")

\* a.get('sentences', []): the list, or the null
SentencesOf(a) == a.sentences.items

\* a.get('sentence_count', 0) or len(a.get('sentences', [])); len(None) is a
\* TypeError, reported by SentenceCountRaises
SentenceCount(a) == IF a.sentence_count # 0 THEN a.sentence_count ELSE Len(SentencesOf(a))

SentenceCountRaises(a) == a.sentence_count = 0 /\ a.sentences.kind = "null"

\* the concatenation of f over the valid abstracts, in corpus order
AllOf(valid, f(_)) == ConcatAll(AsTuple([k \in 1..Len(valid) |-> f(valid[k].full_abstract)]))

Bigrams(text) == extract_ngrams(text, 2)
Trigrams(text) == extract_ngrams(text, 3)

\* Counter(all_verbs).most_common(20)
VerbFreq(valid) == most_common(Counter(AllOf(valid, extract_verbs)), 20)
\* Counter(all_bigrams).most_common(30)
BigramFreq(valid) == most_common(Counter(AllOf(valid, Bigrams)), 30)
\* Counter(all_trigrams).most_common(20)
TrigramFreq(valid) == most_common(Counter(AllOf(valid, Trigrams)), 20)

WordCounts(valid) == AsTuple([k \in 1..Len(valid) |-> Len(split(valid[k].full_abstract))])
SentenceCounts(valid) == AsTuple([k \in 1..Len(valid) |-> SentenceCount(valid[k])])

\* round(x ** 0.5, 1) * 10 for x = v / n^2: the r with (r - 1/2)^2 <= 100x < (r + 1/2)^2
RoundSqrt10(v, n) ==
    CHOOSE r \in 0..(10 * v + 1) :
        /\ (r = 0 \/ (2 * r - 1) * (2 * r - 1) * n * n <= 400 * v)
        /\ 400 * v < (2 * r + 1) * (2 * r + 1) * n * n

\* the stats dict (lines 455-471); every mean is a division by the number
\* of valid abstracts, the median an index into the sorted list
Stats(valid) ==
    LET word_counts == WordCounts(valid)
        sentence_counts == SentenceCounts(valid)
        n == Len(word_counts)
        sq == SumSeq(AsTuple([k \in 1..n |-> word_counts[k] * word_counts[k]]))
    IN [n_abstracts |-> Len(valid),
        word_count |->
            [mean |-> RoundDiv(SumSeq(word_counts) * 10, n),
             median |-> Sorted(word_counts)[n \div 2 + 1],
             min |-> SeqMin(word_counts),
             max |-> SeqMax(word_counts),
             std |-> RoundSqrt10(n * sq - SumSeq(word_counts) * SumSeq(word_counts), n)],
        sentence_count |->
            [mean |-> RoundDiv(SumSeq(sentence_counts) * 10, n),
             median |-> Sorted(sentence_counts)[n \div 2 + 1],
             min |-> SeqMin(sentence_counts),
             max |-> SeqMax(sentence_counts)],
        words_per_sentence |->
            RoundDiv(SumSeq(word_counts) * 10, Max2(SumSeq(sentence_counts), 1))]

\* the abstracts that take part in the opening/closing classification:
\* those whose sentence list is not empty (line 481)
WithSentences(valid) == SelectSeq(valid, LAMBDA a : SentencesOf(a) # <<>>)

FirstText(a) == SentencesOf(a)[1].text
LastText(a) == SentencesOf(a)[Len(SentencesOf(a))].text

\* the labels counted into opening_patterns, one per classified abstract
OpeningLabels(valid) ==
    LET c == WithSentences(valid) IN AsTuple([k \in 1..Len(c) |-> classify_opening(FirstText(c[k]))])

\* closing labels only for the abstracts of more than one sentence
ClosingLabels_multi(valid) ==
    LET c == SelectSeq(valid, LAMBDA a : Len(SentencesOf(a)) > 1)
    IN AsTuple([k \in 1..Len(c) |-> classify_closing(LastText(c[k]))])

\* the labels counted into closing_patterns
ClosingLabels(valid) ==
    LET c == WithSentences(valid) IN AsTuple([k \in 1..Len(c) |-> classify_closing(LastText(c[k]))])

\* pattern_examples[kind]: for every label, the first 100 characters of the
\* first sentence classified so, in the order in which the labels appeared
PatternExamples(labels, texts) ==
    LET keys == DictKeys(labels)
    IN AsTuple([k \in 1..Len(keys) |->
           [key |-> keys[k],
            example |-> Prefix(texts[SetMin({i \in 1..Len(labels) : labels[i] = keys[k]})],
                               100)]])

\* one of the two pattern sections of the report (lines 606-617)
PatternSection(labels, texts) ==
    LET counter == Counter(labels)
    IN [distribution |-> counter,
        total |-> SumSeq(AsTuple([k \in 1..Len(counter) |-> counter[k].count])),
        dominant |-> IF counter # <<>> THEN most_common(counter, 1)[1]
                     ELSE [key |-> "unknown", count |-> 0],
        examples |-> PatternExamples(labels, texts)]

OpeningPatterns(valid) ==
    LET c == WithSentences(valid)
    IN PatternSection(OpeningLabels(valid), AsTuple([k \in 1..Len(c) |-> FirstText(c[k])]))

ClosingPatterns(valid) ==
    LET c == WithSentences(valid)
    IN PatternSection(ClosingLabels(valid), AsTuple([k \in 1..Len(c) |-> LastText(c[k])]))

\* the number of sentences the hedging section divides by (lines 514-517)
HedgeSentences(a) == Max2(SentenceCount(a), 1)

\* the discourse_hedging section (lines 509-523 and 623-628)
Hedging(valid) ==
    LET hedge_densities == AsTuple([k \in 1..Len(valid) |->
                               hedge_density(valid[k].full_abstract, HedgeSentences(valid[k]))])
        hedges == AsTuple([k \in 1..Len(valid) |-> detect_hedges(valid[k].full_abstract)])
    IN [mean_hedges_per_sentence |->
            RoundDiv(SumSeq(hedge_densities), Max2(Len(hedge_densities), 1)),
        total_hedges |-> SumSeq(AsTuple([k \in 1..Len(valid) |-> hedges[k].total])),
        category_totals |->
            IF valid = <<>> THEN <<>>
            ELSE AsTuple([c \in 1..Len(HEDGE_CATEGORIES) |->
                     [key |-> HEDGE_CATEGORIES[c],
                      count |-> SumSeq(AsTuple([k \in 1..Len(valid) |-> hedges[k].cats[c].count]))]]),
        density_per_abstract |-> hedge_densities]

\* the target peak of the recommendation: max(5, int(mean_iu + 1.5)) with
\* mean_iu in tenths
\* the target without the lower limit of 5
TargetPeak_no_minimum(mean_iu) == (mean_iu + 15) \div 10

TargetPeak(mean_iu) == Max2(5, (mean_iu + 15) \div 10)

\* the profile of every valid abstract (line 530)
Profiles(valid, hashseed) ==
    AsTuple([k \in 1..Len(valid) |->
        info_density_profile(valid[k].full_abstract, hashseed)])

\* density_examples with the information units of every sentence in them
DensityExamples_with_details(valid, profiles) ==
    AsTuple([k \in 1..Min2(3, Len(valid)) |->
        [doi |-> valid[k].doi, shape |-> profiles[k].shape,
         profile |-> profiles[k].densities, details |-> profiles[k].details]])

\* density_examples: the first three abstracts (lines 532-537)
DensityExamples(valid, profiles) ==
    AsTuple([k \in 1..Min2(3, Len(valid)) |->
        [doi |-> valid[k].doi, shape |-> profiles[k].shape,
         profile |-> profiles[k].densities]])

\* the section, given the profiles (lines 526-541 and 629-635)
InfoDensityOf(valid, profiles) ==
    LET all_densities == ConcatAll(AsTuple([k \in 1..Len(valid) |-> profiles[k].densities]))
        mean_iu == RoundDiv(SumSeq(all_densities) * 10, Max2(Len(all_densities), 1))
    IN [mean_iu_per_sentence |-> mean_iu,
        max_iu_in_corpus |-> IF all_densities # <<>> THEN SeqMax(all_densities) ELSE 0,
        shape_distribution |-> Counter(AsTuple([k \in 1..Len(valid) |-> profiles[k].shape])),
        examples |-> DensityExamples(valid, profiles),
        target_peak |-> TargetPeak(mean_iu)]

\* the discourse_info_density section
InfoDensity(valid, hashseed) == InfoDensityOf(valid, Profiles(valid, hashseed))

\* the discourse_domain_shift section (lines 545-558 and 636-641)
DomainShift(valid) ==
    LET markers == AsTuple([k \in 1..Len(valid) |-> detect_domain_shifts(valid[k].full_abstract)])
        with == SortedSeq({k \in 1..Len(valid) : markers[k] # <<>>})
    IN [abstracts_with_markers |-> Len(with),
        percentage |-> RoundDiv(100 * Len(with) * 10, Max2(Len(valid), 1)),
        examples |-> AsTuple([j \in 1..Min2(5, Len(with)) |->
                         [doi |-> valid[with[j]].doi,
                          markers |-> AsTuple([m \in 1..Len(markers[with[j]]) |->
                                          markers[with[j]][m].match])]])]

\* re.findall(r'[Hh]ere\s+we\s+(\w+)', text), normalised
HereWeVerbs(text) ==
    LET matches == findall1(VERB_PATTERNS[1], text)
    IN AsTuple([k \in 1..Len(matches) |-> NormalizeVerb(lower(matches[k]))])

\* the here_we_pivot section (lines 563-572 and 587-594); the percentage
\* divides by the number of valid abstracts
HereWePivot(valid) ==
    LET here_we_count == Cardinality({k \in 1..Len(valid) :
                                         HereWeVerbs(valid[k].full_abstract) # <<>>})
    IN [abstracts_with_here_we |-> here_we_count,
        percentage |-> RoundDiv(100 * here_we_count * 10, Len(valid)),
        verb_after_here_we |-> most_common(Counter(AllOf(valid, HereWeVerbs)), 10)]

\* the result dict (lines 575-642)
Result(abstracts, manuscript_keywords, hashseed) ==
    LET valid == Valid(abstracts)
        alignment == compute_topic_alignment(manuscript_keywords,
                         AsTuple([k \in 1..Len(valid) |-> valid[k].full_abstract]))
    IN [meta |-> [n_analyzed |-> Len(valid), n_total |-> Len(abstracts)],
        verb_frequency |-> VerbFreq(valid),
        here_we_pivot |-> HereWePivot(valid),
        domain_terminology |->
            [bigrams |-> Take(BigramFreq(valid), 20),
             trigrams |-> Take(TrigramFreq(valid), 15)],
        sentence_statistics |-> Stats(valid),
        opening_patterns |-> OpeningPatterns(valid),
        closing_patterns |-> ClosingPatterns(valid),
        topic_alignment |->
            [score_pct |-> alignment.score, manuscript_keywords |-> manuscript_keywords,
             keyword_detail |-> alignment.detail],
        discourse_hedging |-> Hedging(valid),
        discourse_info_density |-> InfoDensity(valid, hashseed),
        discourse_domain_shift |-> DomainShift(valid)]

(***************************************************************************)
(* Adaptive keyword extraction                                             *)
(***************************************************************************)
\* the stopwords of the keyword extractor, in lower case
_KW_STOPS == {
    "the", "for", "with", "from", "this", "and", "not", "while", "here",
    "what", "how", "but", "also", "only", "most", "each", "both", "all",
    "can", "may", "will", "should", "must", "has", "had", "was", "were",
    "are", "been", "being", "more", "less", "than", "does", "into", "over",
    "between", "through", "about", "under", "after", "before", "where",
    "abstract", "introduction", "results", "discussion", "methods",
    "references", "figure", "table", "source", "context", "metric", "value",
    "priority", "claim", "section", "supporting", "strength", "gap", "key",
    "result", "impact", "novelty", "mechanism", "one", "fact", "base",
    "logic", "graph", "narrative", "inventory", "sentence", "coverage",
    "check", "paragraph", "covers", "converts", "produces", "enables",
    "first", "novel", "using", "based", "compared", "across", "applied",
    "measured", "demonstrated", "achieved", "show", "shows", "shown",
    "report", "strong", "moderate", "weak", "direct", "indirect", "overall",
    "high", "low", "new", "large", "small", "per", "non", "pre", "sub",
    "auto", "epi", "fig", "ref", "see", "note", "data", "ext",
    "experimental", "commercial", "standard", "single", "no", "off", "on",
    "focus", "side", "optimization", "resolution", "sample", "imaging",
    "detection", "analysis", "technique", "approach", "system", "mode",
    "band", "range", "type", "step", "level", "rate", "field", "point",
    "time", "speed", "limit", "raman", "spectral", "spectrum", "spectra",
    "clinical", "laser", "optical", "signal", "fluorescence", "microscopy",
    "microscope", "wavelength", "power", "pulse", "pulses", "measurement",
    "state-of-the-art", "high-quality", "high-speed", "high-fidelity",
    "high-performance", "high-throughput", "high-resolution",
    "high-sensitivity", "label-free", "real-time", "large-scale",
    "long-term", "low-cost" }

\* re.sub(re, repl, s) for a pattern without groups that matches no empty
\* string: the texts between the matches, joined by repl
re_sub(re, repl, s) == join(repl, re_split(re, s))

\* re.search(re, s).group(): <<the text of the leftmost match>>, <<>> when
\* re.search returns None
search_group(re, s) ==
    LET at == {i \in 1..(Len(s) + 1) : Match(re, s, i, NoGroups) # <<>>}
    IN IF at = {} THEN <<>>
       ELSE <<Sub(s, SetMin(at), Match(re, s, SetMin(at), NoGroups)[1].e - 1)>>

\* . with re.DOTALL
AnyChar == NotCls({})

\* $ without re.MULTILINE, inside a lookahead: the end of the string, or the
\* newline that ends the string
EndOfString == Alt(<<Eol, Cat(<<Lit("\n"), Eol>>)>>)

\* ## 1\. Fact Base.*?(?=## 2\.|$) with re.DOTALL
RE_fact_section ==
    Cat(<<Lit("## 1. Fact Base"), RepLazy(AnyChar, 0, Inf),
          Ahead(Alt(<<Lit("## 2."), EndOfString>>))>>)

\* ## 3\. Claims.*?(?=$) with re.DOTALL
RE_claims_section ==
    Cat(<<Lit("## 3. Claims"), RepLazy(AnyChar, 0, Inf), Ahead(EndOfString)>>)

\* ## 2\. Logic Graph.*?(?=## 3\.|$) with re.DOTALL
RE_logic_section ==
    Cat(<<Lit("## 2. Logic Graph"), RepLazy(AnyChar, 0, Inf),
          Ahead(Alt(<<Lit("## 3."), EndOfString>>))>>)

\* \b[FC]\d{1,2}\b
RE_row_marker == Cat(<<Wb, Cls({"F", "C"}), Rep(D, 1, 2), Wb>>)

\* [|#] (the star of the source's class is no ASCII character)
RE_table_noise == Cls({"|", "#"})

\* \b([A-Z][A-Z0-9]{2,5})\b
RE_kw_acronym ==
    Cat(<<Wb, Grp(1, Cat(<<Cls(UpperSet), Rep(Cls(UpperSet \cup DigitSet), 2, 5)>>)), Wb>>)

\* \b([A-Z][a-z]{3,})\b
RE_kw_proper_noun ==
    Cat(<<Wb, Grp(1, Cat(<<Cls(UpperSet), Rep(Cls(LowerSet), 3, Inf)>>)), Wb>>)

\* the three re.sub calls of _extract_terms (lines 777-781)
Clean(text) ==
    re_sub(Plus(S), " ", re_sub(RE_table_noise, " ", re_sub(RE_row_marker, "", text)))

\* m.lower().split('-')
Parts(m) == re_split(Lit("-"), lower(m))

\* the test on an acronym and on a proper noun (lines 786 and 801)
KeptWord(m) == lower(m) \notin _KW_STOPS

\* a test on a compound that looks at its parts only
KeptHyphenated_parts_only(m) ==
    /\ Len(m) >= 6
    /\ ~(\A p \in Range(Parts(m)) : p \in _KW_STOPS)

\* the two tests on a hyphenated compound (lines 792 and 795)
KeptHyphenated(m) ==
    /\ Len(m) >= 6
    /\ ~(\A p \in Range(Parts(m)) : p \in _KW_STOPS)
    /\ lower(m) \notin _KW_STOPS

\* the compounds counted, each in lower case
LoweredAll(ms) == AsTuple([k \in 1..Len(ms) |-> lower(ms[k])])

\* the keys that counter[key] += 1 is applied to, in the order of the
\* three loops: acronyms, hyphenated compounds, proper nouns
TermsOfClean(clean) ==
    SelectSeq(findall1(RE_kw_acronym, clean), KeptWord)
    \o LoweredAll(SelectSeq(findall1(RE_hyphenated, clean), KeptHyphenated))
    \o SelectSeq(findall1(RE_kw_proper_noun, clean), KeptWord)

\* _extract_terms(text, counter): the increments it makes to counter
_extract_terms(text) == TermsOfClean(Clean(text))

\* if section: _extract_terms(section.group(), candidates)
TermsOfSection(section) == IF section = <<>> THEN <<>> ELSE _extract_terms(section[1])

\* the increments made for the Fact Base, the Claims and the Logic Graph
\* section, in the order of the code (lines 718-730)
StructuredTerms(content) ==
    TermsOfSection(search_group(RE_fact_section, content))
    \o TermsOfSection(search_group(RE_claims_section, content))
    \o TermsOfSection(search_group(RE_logic_section, content))

\* an extractor that never scans the whole document
NeedsFallback_never(structured) == FALSE

\* len(candidates) < 5
NeedsFallback(structured) == Cardinality(Range(structured)) < 5

\* candidates after the fallback: the scan of the whole document adds to the
\* counts of the sections (lines 733-735)
Candidates(content, structured) ==
    Counter(IF NeedsFallback(structured) THEN structured \o _extract_terms(content)
            ELSE structured)

\* str.isupper(): a cased character, and no cased character in lower case
isupper(s) ==
    /\ \E i \in 1..Len(s) : At(s, i) \in UpperSet
    /\ \A i \in 1..Len(s) : At(s, i) \notin LowerSet

\* doc_freq (lines 742, 745, 748)
DocFrequency(term, content) ==
    IF isupper(term) THEN Len(findall0(Lit(term), content))
    ELSE count(lower(content), lower(term))

\* weight, as an integer
Weight(term) == IF isupper(term) THEN 3 ELSE IF contains(term, "-") THEN 2 ELSE 1

\* scored: (term, score, doc_freq) for every candidate in the order of the
\* counter
Scored(candidates, content) ==
    AsTuple([k \in 1..Len(candidates) |->
        [term |-> candidates[k].key,
         score |-> Weight(candidates[k].key)
                   * Max2(DocFrequency(candidates[k].key, content), candidates[k].count),
         doc_freq |-> DocFrequency(candidates[k].key, content)]])

\* scored.sort(key=lambda x: -x[1]): a stable sort
SortByScore(scored) ==
    LET place(i) == 1 + Cardinality({j \in 1..Len(scored) :
                            \/ scored[j].score > scored[i].score
                            \/ scored[j].score = scored[i].score /\ j < i})
    IN AsTuple([p \in 1..Len(scored) |-> scored[CHOOSE i \in 1..Len(scored) : place(i) = p]])

\* [t[0] for t in scored[:15]]
KeywordsOf(sorted) == AsTuple([k \in 1..Min2(15, Len(sorted)) |-> sorted[k].term])

\* the result for the increments of the sections: the keywords, and whether
\* the warning of the fallback was printed
ExtractedFrom(content, structured) ==
    [keywords |-> KeywordsOf(SortByScore(Scored(Candidates(content, structured), content))),
     fallback |-> NeedsFallback(structured)]

extract_keywords_from_semantic_core(content) ==
    ExtractedFrom(content, StructuredTerms(content))

(***************************************************************************)
(* State                                                                   *)
(***************************************************************************)
VARIABLES
    abstracts,            \* analyze: the corpus loaded from abstracts_path
    manuscript_keywords,  \* analyze, compute_topic_alignment: the keywords
    output_file,          \* analyze: <<>> while output_path does not exist,
                          \* <<result>> once a report has been written
    runs,                 \* analyze: how each run so far ended
    sentence,             \* classify_opening, classify_closing: the argument
    op,                   \* the label classify_opening returned, "" before
    cl,                   \* the label classify_closing returned, "" before
    abstract_texts,       \* compute_topic_alignment: the documents
    alignment,            \* what compute_topic_alignment returned, <<>> before
    text,                 \* hedge_density, info_density_profile: the argument
    n_sentences,          \* hedge_density: the argument
    content,              \* extract_keywords_from_semantic_core: the file read
    returned              \* what the functions applied so far returned

vars == <<abstracts, manuscript_keywords, output_file, runs, sentence, op, cl,
          abstract_texts, alignment, text, n_sentences, content, returned>>

\* no function has been applied on its own
NoArgs == text = "" /\ n_sentences = 0 /\ content = "" /\ returned = <<>>

\* the sequences over a set of length at most n
SeqsUpTo(set, n) == UNION {[1..k -> set] : k \in 0..n}

(***************************************************************************)
(* classify_opening and classify_closing applied to sentences put          *)
(* together from fragments                                                 *)
(***************************************************************************)
MaxFrags == 2

Fragments ==
    <<"  Despite losses, ", "The Ability ", "Achieving gain, ", "the problem ",
      "lasers offer ", "Fibres enable ", "This opens a pathway ", "with great promise ",
      "for a new platform ", "in imaging ", "by 10-fold ", "with novel science.">>

\* whole sentences classified as they stand
Examples ==
    {"Despite major advances, achieving sub-wavelength resolution remains elusive.",
     "This establishes a new paradigm for label-free biosensing."}

Sentences ==
    {join("", AsTuple([k \in 1..Len(q) |-> Fragments[q[k]]])) :
        q \in SeqsUpTo(1..Len(Fragments), MaxFrags)}
    \cup Examples

InitClassify ==
    /\ sentence \in Sentences
    /\ op = ""
    /\ cl = ""
    /\ abstracts = <<>>
    /\ manuscript_keywords = <<>>
    /\ output_file = <<>>
    /\ runs = <<>>
    /\ abstract_texts = <<>>
    /\ alignment = <<>>
    /\ NoArgs

ClassifyOpening ==
    /\ op = ""
    /\ op' = classify_opening(sentence)
    /\ UNCHANGED <<abstracts, manuscript_keywords, output_file, runs, sentence, cl,
                   abstract_texts, alignment, text, n_sentences, content, returned>>

ClassifyClosing ==
    /\ cl = ""
    /\ cl' = classify_closing(sentence)
    /\ UNCHANGED <<abstracts, manuscript_keywords, output_file, runs, sentence, op,
                   abstract_texts, alignment, text, n_sentences, content, returned>>

NextClassify == ClassifyOpening \/ ClassifyClosing

SpecClassify == InitClassify /\ [][NextClassify]_vars

\* the lowercased, trimmed sentence the rules are tried on
Trimmed == strip(lower(sentence))

\* the opening rules in the order the claim gives them
C8_Rules ==
    <<[label |-> "problem-first", re |-> RE_problem_first],
      [label |-> "bold-claim", re |-> RE_bold_claim],
      [label |-> "function-first", re |-> RE_function_first]>>

C8_Matching == {k \in 1..Len(C8_Rules) : re_match(C8_Rules[k].re, Trimmed)}

\* C8: classify_opening returns the label of the first rule, in the order
\* problem-first, bold-claim, function-first, whose pattern matches the start
\* of the lowercased, trimmed sentence, and object-first only when no rule
\* matches.
C8_OpeningFirstMatch ==
    op # "" =>
        IF C8_Matching = {} THEN op = "object-first"
        ELSE op = C8_Rules[SetMin(C8_Matching)].label

\* a sentence that two opening rules match has been given the label of the
\* earlier one
C8_Witness ==
    /\ op = "problem-first"
    /\ 3 \in C8_Matching

\* the closing rules in the order the claim gives them
C9_Rules ==
    <<[label |-> "pathway", re |-> RE_pathway],
      [label |-> "promise", re |-> RE_promise],
      [label |-> "paradigm", re |-> RE_paradigm],
      [label |-> "application", re |-> RE_application],
      [label |-> "quantitative-recap", re |-> RE_quantitative],
      [label |-> "outlook", re |-> RE_outlook]>>

C9_Matching == {k \in 1..Len(C9_Rules) : re_search(C9_Rules[k].re, Trimmed)}

\* C9: classify_closing returns the label of the first rule, in the order
\* pathway, promise, paradigm, application, quantitative-recap, outlook, whose
\* pattern occurs anywhere in the lowercased, trimmed sentence, and other only
\* when no rule matches.
C9_ClosingFirstMatch ==
    cl # "" =>
        IF C9_Matching = {} THEN cl = "other"
        ELSE cl = C9_Rules[SetMin(C9_Matching)].label

\* a sentence in which the paradigm and the application pattern both occur
\* has been labelled paradigm
C9_Witness ==
    /\ cl = "paradigm"
    /\ 4 \in C9_Matching

(***************************************************************************)
(* analyze as a whole: how a run ends and what it leaves on disk           *)
(***************************************************************************)
\* sum(word_counts) / len(word_counts) at line 458 divides by zero when no
\* abstract is valid
StatsRaises(valid) == Len(WordCounts(valid)) = 0

\* verb_freq[0][0] in the closing summary (line 651), after the report has
\* been saved
SummaryRaises(valid) == VerbFreq(valid) = <<>>

\* json.dump(result, f) and the closing summary (lines 644-654): the report
\* is on disk when the summary is printed
SaveAndSummarize(result, summary_raises) ==
    IF summary_raises
    THEN [exit_code |-> 1, stderr |-> "Traceback", raised |-> "IndexError",
          written |-> <<result>>]
    ELSE [exit_code |-> 0, stderr |-> "", raised |-> "", written |-> <<result>>]

\* One run of analyze on the loaded corpus.  exit_code is the exit status of
\* the process, stderr the diagnostic it prints, raised the exception that
\* ended it ("" when none), written the report it saved (<<>> when it saved
\* none).
analyze(corpus, keywords, hashseed) ==
    LET valid == Valid(corpus)
    IN IF corpus = <<>>
       THEN [exit_code |-> 1, stderr |-> "No abstracts to analyze", raised |-> "",
             written |-> <<>>]
       ELSE IF \E k \in 1..Len(valid) : SentenceCountRaises(valid[k])
       THEN [exit_code |-> 1, stderr |-> "Traceback", raised |-> "TypeError",
             written |-> <<>>]
       ELSE IF StatsRaises(valid)
       THEN [exit_code |-> 1, stderr |-> "Traceback", raised |-> "ZeroDivisionError",
             written |-> <<>>]
       ELSE SaveAndSummarize(Result(corpus, keywords, hashseed), SummaryRaises(valid))

MaxDocs == 2
MaxRuns == 2
MaxHashSeed == 1
MaxKeywords == 1

Texts ==
    <<"Here we demonstrate SRS imaging of Raman modes. This may enable new devices.",
      "Light is fast.",
      "We use Dr. Smith data. We show a 10-fold gain.">>

\* the records a corpus is made of: records as the fetcher writes them (one
\* of them without text), a record with the text only, and a record with a
\* null sentence list
Records ==
    {FetchRecord("10.1/a", "A", Texts[1]),
     FetchRecord("10.1/b", "B", Texts[2]),
     FetchRecord("10.1/c", "C", ""),
     FetchRecord("10.1/d", "D", Texts[3]),
     BareRecord("10.1/e", "E", Texts[1]),
     NullRecord("10.1/f", "F", Texts[2])}

Keywords == {"Raman"}

Init ==
    /\ abstracts \in SeqsUpTo(Records, MaxDocs)
    /\ manuscript_keywords \in SeqsUpTo(Keywords, MaxKeywords)
    /\ output_file = <<>>
    /\ runs = <<>>
    /\ sentence = ""
    /\ op = ""
    /\ cl = ""
    /\ abstract_texts = <<>>
    /\ alignment = <<>>
    /\ NoArgs

\* a run of the script in a fresh process, whose string hashing is seeded
\* with hashseed
Analyze(hashseed) ==
    /\ Len(runs) < MaxRuns
    /\ \E run \in {analyze(abstracts, manuscript_keywords, hashseed)} :
          /\ runs' = Append(runs, [hashseed |-> hashseed, exit_code |-> run.exit_code,
                                   stderr |-> run.stderr, raised |-> run.raised,
                                   written |-> run.written])
          /\ output_file' = IF run.written # <<>> THEN run.written ELSE output_file
    /\ UNCHANGED <<abstracts, manuscript_keywords, sentence, op, cl, abstract_texts,
                   alignment, text, n_sentences, content, returned>>

Next == \E hashseed \in 0..MaxHashSeed : Analyze(hashseed)

Spec == Init /\ [][Next]_vars

\* the positions of the records of the corpus that have abstract text
C_ValidPositions == {k \in 1..Len(abstracts) : abstracts[k].full_abstract # ""}

\* C1: two runs of analyze over the same corpus and keyword list end alike
\* and write the same report, whatever the order in which each process
\* iterates over its sets.
C1_Deterministic ==
    \A i, j \in DOMAIN runs :
        /\ runs[i].written = runs[j].written
        /\ runs[i].exit_code = runs[j].exit_code
        /\ runs[i].raised = runs[j].raised

\* two runs with different hash seeds have both written a report on a corpus
\* with a sentence whose information units the two processes list in a
\* different order
C1_Witness ==
    /\ Len(runs) = 2
    /\ runs[1].written # <<>>
    /\ runs[2].written # <<>>
    /\ \E k \in C_ValidPositions :
          \E x \in Range(split_sentences(abstracts[k].full_abstract)) :
              count_information_units(x, runs[1].hashseed).items
                  # count_information_units(x, runs[2].hashseed).items

\* C2: on a corpus with at least one valid abstract analyze runs to
\* completion without raising an error, whatever the texts contain.
C2_ValidCorpusCompletes ==
    C_ValidPositions # {} =>
        \A i \in DOMAIN runs : runs[i].raised = "" /\ runs[i].exit_code = 0

\* C3: when the corpus has no valid abstract (it is empty, or no record has
\* abstract text) no run writes a report and the output file does not exist.
C3_EmptyCorpusNoReport ==
    C_ValidPositions = {} =>
        /\ output_file = <<>>
        /\ \A i \in DOMAIN runs : runs[i].written = <<>>

\* analyze has run on a corpus that is not empty but has no valid abstract
C3_Witness ==
    /\ abstracts # <<>>
    /\ C_ValidPositions = {}
    /\ runs # <<>>

\* C4: on a non-empty corpus none of whose records has abstract text analyze
\* ends as on an empty corpus, with the diagnostic message and the error exit,
\* and without a division-by-zero error.
C4_NoValidSameAsEmpty ==
    (abstracts # <<>> /\ C_ValidPositions = {}) =>
        \A i \in DOMAIN runs :
            /\ runs[i].raised = ""
            /\ runs[i].exit_code = analyze(<<>>, manuscript_keywords, 0).exit_code
            /\ runs[i].stderr = analyze(<<>>, manuscript_keywords, 0).stderr

\* C5: in a run that wrote a report, the sentence statistics, the hedge
\* density, the information-density profile and the opening/closing
\* classification use the same number of sentences for every valid record,
\* and for a record without a sentence list that number is the one the
\* sentence splitter derives.
C5_SentenceCountConsistent ==
    \A i \in DOMAIN runs :
        runs[i].written # <<>> =>
            \A k \in C_ValidPositions :
                LET a == abstracts[k]
                    in_profile ==
                        Len(info_density_profile(a.full_abstract, runs[i].hashseed).densities)
                IN /\ SentenceCount(a) = in_profile
                   /\ HedgeSentences(a) = Max2(in_profile, 1)
                   /\ SentencesOf(a) # <<>> => Len(SentencesOf(a)) = in_profile
                   /\ a.sentences.kind # "list" =>
                          SentenceCount(a) = Len(split_sentences(a.full_abstract))

\* the valid abstracts with a sentence list that is not empty
C10_Classified ==
    {k \in C_ValidPositions :
        abstracts[k].sentences.kind = "list" /\ abstracts[k].sentences.items # <<>>}

\* C10: in every report the total of the opening distribution equals the
\* total of the closing distribution and the number of valid abstracts with a
\* non-empty sentence list.
C10_OneLabelEach ==
    \A i \in DOMAIN runs :
        runs[i].written # <<>> =>
            /\ runs[i].written[1].opening_patterns.total = Cardinality(C10_Classified)
            /\ runs[i].written[1].closing_patterns.total = Cardinality(C10_Classified)

\* a report on a corpus in which one valid abstract has a sentence list and
\* another has none
C10_Witness ==
    /\ runs # <<>>
    /\ runs[1].written # <<>>
    /\ C10_Classified # {}
    /\ C10_Classified # C_ValidPositions
    /\ runs[1].written[1].opening_patterns.total = Cardinality(C10_Classified)

\* the valid abstracts whose sentence list is there but holds no sentence:
\* an empty list or a null
C11_Malformed ==
    {k \in C_ValidPositions :
        \/ abstracts[k].sentences.kind = "null"
        \/ abstracts[k].sentences.kind = "list" /\ abstracts[k].sentences.items = <<>>}

\* C11: on a corpus with a valid abstract whose sentence list is empty or
\* null every run writes a report; the abstract is left out of the
\* opening/closing classification only: it is counted in n_abstracts, has
\* its entry in density_per_abstract and its count in the shape distribution.
C11_MalformedSentenceList ==
    C11_Malformed # {} =>
        \A i \in DOMAIN runs :
            /\ runs[i].raised # "TypeError"
            /\ runs[i].written # <<>>
            /\ LET report == runs[i].written[1]
                   shapes == report.discourse_info_density.shape_distribution
               IN /\ report.stats.n_abstracts = Cardinality(C_ValidPositions)
                  /\ Len(report.discourse_hedging.density_per_abstract)
                         = Cardinality(C_ValidPositions)
                  /\ SumSeq(AsTuple([k \in 1..Len(shapes) |-> shapes[k].count]))
                         = Cardinality(C_ValidPositions)
                  /\ report.opening_patterns.total
                         = Cardinality(C_ValidPositions \ C11_Malformed)

(***************************************************************************)
(* compute_topic_alignment applied to keyword lists and document lists     *)
(***************************************************************************)
MaxAlignKeywords == 2
MaxAlignTexts == 3

AlignKeywords == {"Raman", "light"}

AlignTexts == {"Raman light and more light.", "Light is fast.", "SRS imaging."}

InitAlign ==
    /\ manuscript_keywords \in SeqsUpTo(AlignKeywords, MaxAlignKeywords)
    /\ abstract_texts \in SeqsUpTo(AlignTexts, MaxAlignTexts)
    /\ alignment = <<>>
    /\ abstracts = <<>>
    /\ output_file = <<>>
    /\ runs = <<>>
    /\ sentence = ""
    /\ op = ""
    /\ cl = ""
    /\ NoArgs

ComputeTopicAlignment ==
    /\ alignment = <<>>
    /\ alignment' = <<compute_topic_alignment(manuscript_keywords, abstract_texts)>>
    /\ UNCHANGED <<abstracts, manuscript_keywords, output_file, runs, sentence, op, cl,
                   abstract_texts, text, n_sentences, content, returned>>

NextAlign == ComputeTopicAlignment

SpecAlign == InitAlign /\ [][NextAlign]_vars

\* C6: for a keyword list and a corpus that are both non-empty the score
\* compute_topic_alignment returns lies between 0 and 100 (the score is kept
\* in tenths).
C6_ScoreBounded ==
    (alignment # <<>> /\ manuscript_keywords # <<>> /\ abstract_texts # <<>>) =>
        (0 <= alignment[1].score /\ alignment[1].score <= 1000)

\* C7: with zero documents compute_topic_alignment returns the score 0.0 and
\* an empty keyword detail, for every keyword list, and evaluates no
\* logarithm and no division.
C7_ZeroDocuments ==
    (alignment # <<>> /\ abstract_texts = <<>>) =>
        /\ alignment[1].score = 0
        /\ alignment[1].detail = <<>>
        /\ alignment[1].logs = 0
        /\ alignment[1].divs = 0
        /\ alignment[1].raised = ""

\* compute_topic_alignment has returned for keywords and no document
C7_Witness ==
    /\ alignment # <<>>
    /\ abstract_texts = <<>>
    /\ manuscript_keywords # <<>>

(***************************************************************************)
(* The frequency lists of the report on corpora of short abstracts         *)
(***************************************************************************)
MaxRankDocs == 3

RankTexts ==
    <<"Here we demonstrate optical gain.",
      "We show optical gain.",
      "Our method achieves optical gain.",
      "We achieved raman gain maps. We show raman gain maps.">>

RankRecords == {BareRecord("10.2/" \o Str(k), "R", RankTexts[k]) : k \in 1..Len(RankTexts)}

InitRank ==
    /\ abstracts \in SeqsUpTo(RankRecords, MaxRankDocs)
    /\ manuscript_keywords = <<>>
    /\ output_file = <<>>
    /\ runs = <<>>
    /\ sentence = ""
    /\ op = ""
    /\ cl = ""
    /\ abstract_texts = <<>>
    /\ alignment = <<>>
    /\ NoArgs

\* the application of fn has returned value
Returns(fn, value) ==
    /\ \A k \in DOMAIN returned : returned[k].fn # fn
    /\ returned' = <<[fn |-> fn, value |-> value]>>
    /\ UNCHANGED <<abstracts, manuscript_keywords, output_file, runs, sentence, op, cl,
                   abstract_texts, alignment, text, n_sentences, content>>

\* result['verb_frequency'] (lines 583-586)
VerbFrequency == Returns("verb_frequency", VerbFreq(Valid(abstracts)))

\* result['domain_terminology']['bigrams'] (lines 596-599)
BigramFrequency == Returns("bigrams", Take(BigramFreq(Valid(abstracts)), 20))

\* result['domain_terminology']['trigrams'] (lines 600-603)
TrigramFrequency == Returns("trigrams", Take(TrigramFreq(Valid(abstracts)), 15))

NextRank == VerbFrequency \/ BigramFrequency \/ TrigramFrequency

SpecRank == InitRank /\ [][NextRank]_vars

\* the terms of the valid abstracts in the order in which the list is
\* filled: abstract after abstract in corpus order
C12_Encountered(fn) ==
    IF fn = "verb_frequency" THEN AllOf(Valid(abstracts), extract_verbs)
    ELSE IF fn = "bigrams" THEN AllOf(Valid(abstracts), Bigrams)
    ELSE AllOf(Valid(abstracts), Trigrams)

\* the place at which a term was first encountered
C12_FirstAt(items, term) == SetMin({i \in 1..Len(items) : items[i] = term})

\* the corpus of the three abstracts of the example, in their order
C12_Example ==
    /\ Len(abstracts) = 3
    /\ \A k \in 1..3 : abstracts[k].full_abstract = RankTexts[k]

\* C12: every frequency list of the report gives each term with the number
\* of its occurrences, ordered by count descending, terms with equal counts
\* in the order in which they were first encountered in corpus order; for
\* the three abstracts of the example the verb ranking is demonstrate, show,
\* achieve with count 1 each.
C12_FrequencyRanking ==
    \A r \in DOMAIN returned :
        LET list == returned[r].value
            items == C12_Encountered(returned[r].fn)
        IN /\ \A k \in DOMAIN list :
                  /\ list[k].key \in Range(items)
                  /\ list[k].count = Cardinality({i \in 1..Len(items) : items[i] = list[k].key})
           /\ \A k \in 1..(Len(list) - 1) :
                  \/ list[k].count > list[k + 1].count
                  \/ /\ list[k].count = list[k + 1].count
                     /\ C12_FirstAt(items, list[k].key) < C12_FirstAt(items, list[k + 1].key)
           /\ (C12_Example /\ returned[r].fn = "verb_frequency") =>
                  list = <<[key |-> "demonstrate", count |-> 1],
                           [key |-> "show", count |-> 1],
                           [key |-> "achieve", count |-> 1]>>

\* the verb ranking of the three abstracts of the example has been returned:
\* three verbs with equal counts
C12_Witness ==
    /\ C12_Example
    /\ returned # <<>>
    /\ returned[1].fn = "verb_frequency"
    /\ Len(returned[1].value) = 3
    /\ returned[1].value[1].count = returned[1].value[3].count

(***************************************************************************)
(* hedge_density applied to texts put together from phrases                *)
(***************************************************************************)
MaxHedgeFrags == 2
MaxHedgeSentences == 3
MaxMeasures == 2

HedgeFragments == <<"We may ", "this suggests that ", "light is fast. ", "can approximately ">>

HedgeTexts ==
    {join("", AsTuple([k \in 1..Len(q) |-> HedgeFragments[q[k]]])) :
        q \in SeqsUpTo(1..Len(HedgeFragments), MaxHedgeFrags)}

InitHedge ==
    /\ n_sentences \in 0..MaxHedgeSentences
    /\ text = ""
    /\ content = ""
    /\ returned = <<>>
    /\ abstracts = <<>>
    /\ manuscript_keywords = <<>>
    /\ output_file = <<>>
    /\ runs = <<>>
    /\ sentence = ""
    /\ op = ""
    /\ cl = ""
    /\ abstract_texts = <<>>
    /\ alignment = <<>>

\* hedge_density(t, n_sentences), with the total detect_hedges finds in t
HedgeDensity(t) ==
    /\ Len(returned) < MaxMeasures
    /\ text' = t
    /\ returned' = Append(returned, [fn |-> "hedge_density", text |-> t,
                                     total |-> detect_hedges(t).total,
                                     value |-> hedge_density(t, n_sentences)])
    /\ UNCHANGED <<abstracts, manuscript_keywords, output_file, runs, sentence, op, cl,
                   abstract_texts, alignment, n_sentences, content>>

NextHedge == \E t \in HedgeTexts : HedgeDensity(t)

SpecHedge == InitHedge /\ [][NextHedge]_vars

\* C13: for a fixed number of sentences n >= 0 the density of a text with
\* more hedge matches is never below that of a text with fewer; the density
\* is the whole count of matches divided by max(1, n), so that with n = 0 it
\* is the count itself (densities are kept in hundredths).
C13_HedgeDensityMonotone ==
    /\ \A i, j \in DOMAIN returned :
           returned[i].total <= returned[j].total => returned[i].value <= returned[j].value
    /\ \A i \in DOMAIN returned :
           /\ n_sentences <= 1 => returned[i].value = 100 * returned[i].total
           /\ n_sentences >= 1 =>
                  /\ returned[i].value * n_sentences <= 100 * returned[i].total + n_sentences
                  /\ returned[i].value * n_sentences >= 100 * returned[i].total - n_sentences

\* the density has been taken with no sentence for a text and for a text
\* with one more hedge match, with more matches than sentences
C13_Witness ==
    /\ n_sentences = 0
    /\ Len(returned) = 2
    /\ returned[2].total = returned[1].total + 1
    /\ returned[1].total > 0

(***************************************************************************)
(* count_information_units applied to sentences put together from words    *)
(***************************************************************************)
MaxIUFrags == 3

IUFragments == <<"SRS ", "confirmed ", "Raman ", "10-fold ", "label-free ", "optical imaging ">>

IUExample == "SRS confirmed SRS signal"

IUSentences ==
    {strip(join("", AsTuple([k \in 1..Len(q) |-> IUFragments[q[k]]]))) :
        q \in SeqsUpTo(1..Len(IUFragments), MaxIUFrags)}
    \cup {IUExample}

InitIU ==
    /\ sentence \in IUSentences
    /\ op = ""
    /\ cl = ""
    /\ abstracts = <<>>
    /\ manuscript_keywords = <<>>
    /\ output_file = <<>>
    /\ runs = <<>>
    /\ abstract_texts = <<>>
    /\ alignment = <<>>
    /\ NoArgs

\* count_information_units(sentence) in a process whose string hashing is
\* seeded with hashseed
CountInformationUnits(hashseed) ==
    Returns("count_information_units", count_information_units(sentence, hashseed))

NextIU == \E hashseed \in 0..MaxHashSeed : CountInformationUnits(hashseed)

SpecIU == InitIU /\ [][NextIU]_vars

C14_Prefixes == <<"ACRO:", "NUM:", "PROP:", "HYPH:", "NP:">>

\* the distinct tags of the sentence that begin with the prefix
C14_Tagged(prefix) == {t \in Range(IUTags(sentence)) : StartsAt(t, 1, prefix)}

\* C14: the count count_information_units returns is the number of distinct
\* tagged strings the five rules produce, a tag produced by several matches
\* counting once and tags of different prefixes counting apart; the returned
\* list holds each of these tags once; for 'SRS confirmed SRS signal' the
\* result is the one unit ACRO:SRS.
C14_Deduplicated ==
    \A r \in DOMAIN returned :
        LET value == returned[r].value
        IN /\ value.count = Cardinality(Range(IUTags(sentence)))
           /\ value.count = SumSeq(AsTuple([p \in 1..Len(C14_Prefixes) |->
                                Cardinality(C14_Tagged(C14_Prefixes[p]))]))
           /\ Range(value.items) = Range(IUTags(sentence))
           /\ Len(value.items) = value.count
           /\ sentence = IUExample => value.count = 1 /\ value.items = <<"ACRO:SRS">>

\* the units of the sentence of the example, in which the acronym is matched
\* twice, have been counted
C14_Witness ==
    /\ sentence = IUExample
    /\ returned # <<>>
    /\ Len(IUTags(sentence)) = 2
    /\ returned[1].value.count = 1

(***************************************************************************)
(* info_density_profile applied to texts put together from sentences with  *)
(* 0, 1, 2, 3 and 7 information units                                      *)
(***************************************************************************)
MaxShapeSentences == 4

ShapeFragments ==
    <<"Light is fast. ", "We use SRS. ", "We use SRS and FID. ",
      "We use SRS and FID and CARS. ", "We use AAA BBB CCC DDD EEE FFF GGG. ">>

\* the texts, with a text of blanks only among them
ShapeTexts ==
    {join("", AsTuple([k \in 1..Len(q) |-> ShapeFragments[q[k]]])) :
        q \in SeqsUpTo(1..Len(ShapeFragments), MaxShapeSentences)}
    \cup {"   "}

InitShape ==
    /\ text \in ShapeTexts
    /\ n_sentences = 0
    /\ content = ""
    /\ returned = <<>>
    /\ abstracts = <<>>
    /\ manuscript_keywords = <<>>
    /\ output_file = <<>>
    /\ runs = <<>>
    /\ sentence = ""
    /\ op = ""
    /\ cl = ""
    /\ abstract_texts = <<>>
    /\ alignment = <<>>

\* info_density_profile(text) in a process whose string hashing is seeded
\* with hashseed
InfoDensityProfile(hashseed) ==
    Returns("info_density_profile", info_density_profile(text, hashseed))

NextShape == \E hashseed \in 0..MaxHashSeed : InfoDensityProfile(hashseed)

SpecShape == InitShape /\ [][NextShape]_vars

\* C15: for a text whose sequence of information units per sentence has
\* fewer than 3 elements, a text without any sentence included,
\* info_density_profile returns the shape short.
C15_ShortShape ==
    \A r \in DOMAIN returned :
        Len(returned[r].value.densities) < 3 => returned[r].value.shape = "short"

\* the 0-based index of the first maximum of d
C16_Peak(d) == SetMin({i \in 1..Len(d) : d[i] = SeqMax(d)}) - 1

\* none of the three first rules applies to d: no element above 6 and the
\* peak strictly between 0.3 n and 0.7 n
C17_Branch(d) ==
    /\ Len(d) >= 3
    /\ SeqMax(d) <= 6
    /\ 10 * C16_Peak(d) > 3 * Len(d)
    /\ 10 * C16_Peak(d) < 7 * Len(d)

\* C16: for a sequence d of n >= 3 counts the shape is spiky when max(d) > 6,
\* wherever the peak lies; otherwise front-loaded when the index of the first
\* maximum is <= 0.3 n, otherwise back-loaded when it is >= 0.7 n; bell or
\* flat is returned only when none of the three rules applies.
C16_RulePrecedence ==
    \A r \in DOMAIN returned :
        LET d == returned[r].value.densities
            shape == returned[r].value.shape
            n == Len(d)
        IN n >= 3 =>
              /\ SeqMax(d) > 6 => shape = "spiky"
              /\ (SeqMax(d) <= 6 /\ 10 * C16_Peak(d) <= 3 * n) => shape = "front-loaded"
              /\ (SeqMax(d) <= 6 /\ 10 * C16_Peak(d) > 3 * n /\ 10 * C16_Peak(d) >= 7 * n)
                     => shape = "back-loaded"
              /\ shape \in {"bell", "flat"} <=> C17_Branch(d)

\* a profile of three or more sentences whose first sentence holds more
\* than 6 units has been classified spiky
C16_Witness ==
    /\ returned # <<>>
    /\ Len(returned[1].value.densities) >= 3
    /\ returned[1].value.densities[1] > 6
    /\ returned[1].value.shape = "spiky"

\* the elements d[n//3 : 2n//3] of d
C17_Middle(d) == SubSeq(d, Len(d) \div 3 + 1, (2 * Len(d)) \div 3)

\* the elements d[: n//3] and d[2n//3 :] of d
C17_Edges(d) == SubSeq(d, 1, Len(d) \div 3) \o SubSeq(d, (2 * Len(d)) \div 3 + 1, Len(d))

\* the mean of the middle slice is above 1.2 times the mean of the rest:
\* sum(m) / len(m) > 1.2 * sum(e) / len(e), for slices that are not empty
C17_MiddleHigher(d) ==
    10 * SumSeq(C17_Middle(d)) * Len(C17_Edges(d))
        > 12 * SumSeq(C17_Edges(d)) * Len(C17_Middle(d))

\* C17: when n >= 3, max(d) <= 6 and 0.3 n < peak < 0.7 n the shape is bell
\* if and only if the mean of the middle slice d[n//3 : 2n//3] is strictly
\* above 1.2 times the mean of the other elements, and flat otherwise; the
\* middle slice is not empty in this branch.
C17_BellOrFlat ==
    \A r \in DOMAIN returned :
        LET d == returned[r].value.densities
            shape == returned[r].value.shape
        IN C17_Branch(d) =>
              /\ C17_Middle(d) # <<>>
              /\ C17_Edges(d) # <<>>
              /\ shape = "bell" <=> C17_MiddleHigher(d)
              /\ shape = "flat" <=> ~C17_MiddleHigher(d)

\* a profile whose middle mean equals 1.2 times the mean of the rest has
\* been classified flat
C17_Witness ==
    /\ returned # <<>>
    /\ C17_Branch(returned[1].value.densities)
    /\ 10 * SumSeq(C17_Middle(returned[1].value.densities))
              * Len(C17_Edges(returned[1].value.densities))
           = 12 * SumSeq(C17_Edges(returned[1].value.densities))
                 * Len(C17_Middle(returned[1].value.densities))
    /\ SumSeq(returned[1].value.densities) > 0
    /\ returned[1].value.shape = "flat"

(***************************************************************************)
(* extract_keywords_from_semantic_core and _extract_terms applied to       *)
(* documents put together from section headers and lines of text           *)
(***************************************************************************)
MaxContentFrags == 3

ContentFragments ==
    <<"## 1. Fact Base\n", "## 2. Logic Graph\n", "## 3. Claims\n", "| F1 | SRS |\n",
      "AAA BBB CCC DDD EEE\n", "label-free high-low Side-lobe Fourier\n",
      "near-field near-field\n">>

\* documents taken as they stand: sixteen acronyms; acronyms that are
\* stopwords; a document with the three sections
ContentExamples ==
    {"AAA BBB CCC DDD EEE FFF GGG HHH III JJJ KKK LLL MMM NNN OOO PPP",
     "DATA TABLE FIGURE NOTE HIGH SRS",
     "## 1. Fact Base\n| F1 | SRS TERS CARS FID SNR |\n## 2. Logic Graph\nFourier near-field\n## 3. Claims\n| C1 | SRS SRS |\nreal-time\n"}

Contents ==
    {join("", AsTuple([k \in 1..Len(q) |-> ContentFragments[q[k]]])) :
        q \in SeqsUpTo(1..Len(ContentFragments), MaxContentFrags)}
    \cup ContentExamples

InitKeywords ==
    /\ content \in Contents
    /\ text = ""
    /\ n_sentences = 0
    /\ returned = <<>>
    /\ abstracts = <<>>
    /\ manuscript_keywords = <<>>
    /\ output_file = <<>>
    /\ runs = <<>>
    /\ sentence = ""
    /\ op = ""
    /\ cl = ""
    /\ abstract_texts = <<>>
    /\ alignment = <<>>

\* keywords = extract_keywords_from_semantic_core(content) (line 823)
ExtractKeywords ==
    Returns("extract_keywords_from_semantic_core",
            extract_keywords_from_semantic_core(content))

\* _extract_terms(content, Counter()): the terms it counts
ExtractTerms == Returns("_extract_terms", _extract_terms(content))

NextKeywords == ExtractKeywords \/ ExtractTerms

SpecKeywords == InitKeywords /\ [][NextKeywords]_vars

\* what extract_keywords_from_semantic_core returned, if it was the last
\* function applied
C_Extracted ==
    {returned[r].value : r \in {r \in DOMAIN returned :
                                   returned[r].fn = "extract_keywords_from_semantic_core"}}

\* the text of a section after its header holds blanks only
C18_EmptySection(section, header) ==
    section = <<>> \/ strip(Sub(section[1], Len(header) + 1, Len(section[1]))) = ""

\* the three labeled sections of the document are absent or empty
C18_NoSections ==
    /\ C18_EmptySection(search_group(RE_fact_section, content), "## 1. Fact Base")
    /\ C18_EmptySection(search_group(RE_logic_section, content), "## 2. Logic Graph")
    /\ C18_EmptySection(search_group(RE_claims_section, content), "## 3. Claims")

\* the acronym-like tokens of the document: a capital followed by 2 to 5
\* capitals or digits, as a whole word
C18_AcronymLike == Range(findall1(RE_kw_acronym, content))

\* those of them that are no stopwords and no row markers of a table
C18_Acronyms == {t \in Range(findall1(RE_kw_acronym, Clean(content))) : lower(t) \notin _KW_STOPS}

C19_SectionOccurrences(term) ==
    Cardinality({k \in 1..Len(StructuredTerms(content)) : StructuredTerms(content)[k] = term})

\* the score of the claim: type weight x max(whole-document frequency,
\* occurrences inside the three labeled sections)
C19_Score(term) ==
    Weight(term) * Max2(DocFrequency(term, content), C19_SectionOccurrences(term))

\* the candidates: the terms of the sections, with those of the whole
\* document when the fallback scan ran
C19_Candidates(fallback) ==
    Range(StructuredTerms(content))
    \cup (IF fallback THEN Range(_extract_terms(content)) ELSE {})

\* C19: the keywords returned are at most 15 candidates in non-increasing
\* order of the score weight x max(whole-document frequency, occurrences
\* inside the three labeled sections), and no candidate left out has a
\* higher score than a returned one, whether the fallback scan ran or not.
C19_RankedByScore ==
    \A v \in C_Extracted :
        /\ Len(v.keywords) <= 15
        /\ Range(v.keywords) \subseteq C19_Candidates(v.fallback)
        /\ \A k \in 1..(Len(v.keywords) - 1) :
               C19_Score(v.keywords[k]) >= C19_Score(v.keywords[k + 1])
        /\ \A t \in C19_Candidates(v.fallback) \ Range(v.keywords) :
               \A k \in 1..Len(v.keywords) : C19_Score(t) <= C19_Score(v.keywords[k])

\* the hyphenated compounds of at least 6 characters in the cleaned text
C20_Compounds ==
    {m \in Range(findall1(RE_hyphenated, Clean(content))) : Len(m) >= 6}

\* the terms _extract_terms counted, if it was the last function applied
C20_Terms ==
    {returned[r].value : r \in {r \in DOMAIN returned : returned[r].fn = "_extract_terms"}}

\* every hyphen-separated part of the compound is a stopword
C20_AllPartsStop(m) == \A p \in Range(Parts(m)) : p \in _KW_STOPS

\* C20 as stated: a hyphenated compound of at least 6 characters is rejected
\* if and only if every one of its hyphen-separated parts is a stopword; a
\* compound with a part outside the stopword set is kept as a candidate.
C20_RejectedIffAllParts ==
    \A terms \in C20_Terms :
        \A m \in C20_Compounds : (lower(m) \notin Range(terms)) <=> C20_AllPartsStop(m)

\* C20 amended: a hyphenated compound of at least 6 characters is rejected
\* if and only if every one of its hyphen-separated parts is a stopword or
\* the compound in lower case is itself in the stopword set.
C20_RejectedIffStopped ==
    \A terms \in C20_Terms :
        \A m \in C20_Compounds :
            (lower(m) \notin Range(terms)) <=> (C20_AllPartsStop(m) \/ lower(m) \in _KW_STOPS)

\* the terms of a document with a compound that is a stop phrase, a compound
\* of two stopwords and a compound with a part that is no stopword have been
\* extracted
C20_Witness ==
    /\ \E m \in C20_Compounds : lower(m) \in _KW_STOPS /\ ~C20_AllPartsStop(m)
    /\ \E m \in C20_Compounds : C20_AllPartsStop(m)
    /\ \E terms \in C20_Terms : "side-lobe" \in Range(terms)

(***************************************************************************)
(* The sentence splitter on its own                                        *)
(***************************************************************************)
MaxSplitFrags == 3

SplitFragments ==
    <<"It works. ", "e.g. Big ", "See Fig. A. ", "is 5.5 cm ", "  ", "et al. Our ",
      "Why? Yes! ", "i.e. One. Ext. Data ", "end", "done. e.g. very ">>

SplitExample == "The sample was 5.5 cm, e.g. very small."

SplitTexts ==
    {join("", AsTuple([k \in 1..Len(q) |-> SplitFragments[q[k]]])) :
        q \in SeqsUpTo(1..Len(SplitFragments), MaxSplitFrags)}
    \cup {SplitExample}

InitSplit ==
    /\ text \in SplitTexts
    /\ n_sentences = 0
    /\ content = ""
    /\ returned = <<>>
    /\ abstracts = <<>>
    /\ manuscript_keywords = <<>>
    /\ output_file = <<>>
    /\ runs = <<>>
    /\ sentence = ""
    /\ op = ""
    /\ cl = ""
    /\ abstract_texts = <<>>
    /\ alignment = <<>>

\* split_sentences(text)
SplitSentences == Returns("split_sentences", split_sentences(text))

NextSplit == SplitSentences

SpecSplit == InitSplit /\ [][NextSplit]_vars

\* the sentence lists split_sentences has returned for text
C_Split == {returned[k].value : k \in {j \in DOMAIN returned : returned[j].fn = "split_sentences"}}

C21_Terminal == {".", "!", "?"}

\* C21: split_sentences returns at least one sentence for a text with a
\* letter and the empty list only for an empty or whitespace-only text; every
\* sentence returned is non-empty and has no whitespace at either end, and a
\* trailing sentence without terminal punctuation is the last element.
C21_SentencesWellFormed ==
    \A sents \in C_Split :
        /\ (\E i \in 1..Len(text) : At(text, i) \in UpperSet \cup LowerSet) => Len(sents) >= 1
        /\ sents = <<>> => strip(text) = ""
        /\ \A k \in 1..Len(sents) : sents[k] # "" /\ strip(sents[k]) = sents[k]
        /\ (strip(text) # "" /\ At(strip(text), Len(strip(text))) \notin C21_Terminal) =>
              /\ sents # <<>>
              /\ At(sents[Len(sents)], Len(sents[Len(sents)])) \notin C21_Terminal
              /\ StartsAt(strip(text), Len(strip(text)) - Len(sents[Len(sents)]) + 1,
                          sents[Len(sents)])

\* a text of several sentences whose last one has no terminal punctuation has
\* been split, whitespace at its ends removed
C21_Witness ==
    \E sents \in C_Split :
        /\ Len(sents) >= 3
        /\ strip(text) # text
        /\ At(strip(text), Len(strip(text))) \notin C21_Terminal

C22_Protected == {"e.g.", "i.e.", "et al.", "Fig.", "Ext."}

\* \d\.\d
RE_decimal_point == Cat(<<D, Lit("."), D>>)

C22_EndsWith(s, lit) == StartsAt(s, Len(s) - Len(lit) + 1, lit)

\* C22: split_sentences places no sentence boundary at the period of a
\* protected abbreviation (e.g., i.e., et al., Fig., Ext.) or at a period
\* between two digits, also when whitespace and an uppercase letter follow,
\* and every protected span of the text is in the output unchanged; the
\* example 'The sample was 5.5 cm, e.g. very small.' is one sentence.
C22_ProtectedSpansKept ==
    \A sents \in C_Split :
        /\ \A k \in 1..(Len(sents) - 1) :
              /\ \A a \in C22_Protected : ~C22_EndsWith(sents[k], a)
              /\ ~(/\ At(sents[k], Len(sents[k])) = "."
                   /\ At(sents[k], Len(sents[k]) - 1) \in DigitSet
                   /\ At(sents[k + 1], 1) \in DigitSet)
        /\ \A a \in C22_Protected :
              SumSeq(AsTuple([k \in 1..Len(sents) |-> count(sents[k], a)])) = count(text, a)
        /\ SumSeq(AsTuple([k \in 1..Len(sents) |-> Len(finditer(RE_decimal_point, sents[k]))]))
              = Len(finditer(RE_decimal_point, text))
        /\ text = SplitExample => sents = <<SplitExample>>

\* a text in which a protected abbreviation is followed by whitespace and an
\* uppercase letter, and which has a decimal number, has been split in
\* several sentences
C22_Witness ==
    \E sents \in C_Split :
        /\ Len(sents) >= 2
        /\ \E a \in C22_Protected : \E i \in 1..Len(text) :
              /\ StartsAt(text, i, a)
              /\ At(text, i + Len(a)) \in SpaceSet
              /\ At(text, i + Len(a) + 1) \in UpperSet
        /\ contains(text, "5.5")

(***************************************************************************)
(* The keys of the report                                                  *)
(***************************************************************************)
C23_KeysOf(dict) == {dict[k].key : k \in DOMAIN dict}

\* the keys of the mappings of a report whose keys the code computes
C23_Keys(result) ==
    [opening_distribution |-> C23_KeysOf(result.opening_patterns.distribution),
     opening_examples |-> C23_KeysOf(result.opening_patterns.examples),
     closing_distribution |-> C23_KeysOf(result.closing_patterns.distribution),
     closing_examples |-> C23_KeysOf(result.closing_patterns.examples),
     shape_distribution |-> C23_KeysOf(result.discourse_info_density.shape_distribution),
     category_totals |-> C23_KeysOf(result.discourse_hedging.category_totals),
     keyword_detail |-> {result.topic_alignment.keyword_detail[k].kw :
                            k \in DOMAIN result.topic_alignment.keyword_detail}]

\* a corpus of one record as the fetcher writes it
C23_Reference == <<FetchRecord("10.1/d", "D", Texts[3])>>

\* C23: the reports of two valid corpora analysed with the same keyword list
\* have the same keys at every nesting level: the keys of the opening, closing
\* and shape distributions and of the examples mappings of a report written
\* are those of the report of any other valid corpus (here a reference corpus
\* of one record), whichever labels occur in the two.
C23_SameKeys ==
    \A i \in DOMAIN runs :
        (runs[i].written # <<>> /\ runs[i].exit_code = 0) =>
            C23_Keys(runs[i].written[1])
                = C23_Keys(Result(C23_Reference, manuscript_keywords, runs[i].hashseed))

(***************************************************************************)
(* The verb extractor on its own                                           *)
(***************************************************************************)
MaxVerbFrags == 3

VerbFragments ==
    <<"Here we demonstrate gain. ", "We Showed modes, ", "enabling devices. ",
      "Our results reveal order thus ", "Here  We use light. ", "We do it. ",
      "The work We ", "Here We go, ">>

VerbTexts ==
    {join("", AsTuple([k \in 1..Len(q) |-> VerbFragments[q[k]]])) :
        q \in SeqsUpTo(1..Len(VerbFragments), MaxVerbFrags)}

InitVerbs ==
    /\ text \in VerbTexts
    /\ n_sentences = 0
    /\ content = ""
    /\ returned = <<>>
    /\ abstracts = <<>>
    /\ manuscript_keywords = <<>>
    /\ output_file = <<>>
    /\ runs = <<>>
    /\ sentence = ""
    /\ op = ""
    /\ cl = ""
    /\ abstract_texts = <<>>
    /\ alignment = <<>>

\* extract_verbs(text)
ExtractVerbs == Returns("extract_verbs", extract_verbs(text))

NextVerbs == ExtractVerbs

SpecVerbs == InitVerbs /\ [][NextVerbs]_vars

\* the verb lists extract_verbs has returned for text
C_Verbs == {returned[k].value : k \in {j \in DOMAIN returned : returned[j].fn = "extract_verbs"}}

\* the words the four pattern families capture in text: the family, the
\* span of the word and the word in lower case
C_Captured ==
    UNION {{[family |-> p, b |-> m.g[1][1], e |-> m.g[1][2],
             word |-> lower(Sub(text, m.g[1][1], m.g[1][2] - 1))] :
               m \in Range(finditer(VERB_PATTERNS[p], text))} : p \in DOMAIN VERB_PATTERNS}

C25_Image(word) == IF word \in DOMAIN VERB_NORMALIZE THEN VERB_NORMALIZE[word] ELSE word

C25_Kept(word) == C25_Image(word) \notin STOP_VERBS /\ Len(C25_Image(word)) >= 3

\* C24: extract_verbs lists the verbs in the order of the positions of their
\* matches in the text, also across the pattern families: the verb of a
\* 'We <verb>' match that precedes a 'Here we <verb>' match comes first.
C24_TextOrder ==
    \A verbs \in C_Verbs :
        LET kept == {c \in C_Captured : C25_Kept(c.word)}
            at == SortedSeq({c.b : c \in kept})
        IN verbs = AsTuple([k \in 1..Len(at) |->
                       C25_Image((CHOOSE c \in kept : c.b = at[k]).word)])

\* C25: every verb returned is in lower case, is the image under the
\* normalization table of a captured word (the word itself when the table
\* has no entry for it), is no stop verb and has at least 3 characters, the
\* test being made on the image; no verb returned is a key of the table.
C25_NormalizedAndFiltered ==
    \A verbs \in C_Verbs :
        /\ \A k \in 1..Len(verbs) :
              /\ verbs[k] = lower(verbs[k])
              /\ \E c \in C_Captured : verbs[k] = C25_Image(c.word)
              /\ verbs[k] \notin STOP_VERBS
              /\ Len(verbs[k]) >= 3
              /\ verbs[k] \notin DOMAIN VERB_NORMALIZE
        /\ \A c \in C_Captured : C25_Kept(c.word) => C25_Image(c.word) \in Range(verbs)

\* the verbs of a text with a capitalised inflected form, a stop verb and a
\* word of two characters among the captured words have been extracted
C25_Witness ==
    \E verbs \in C_Verbs :
        /\ "show" \in Range(verbs)
        /\ \E c \in C_Captured : c.word \in STOP_VERBS
        /\ \E c \in C_Captured : Len(c.word) < 3
        /\ \E c \in C_Captured : Sub(text, c.b, c.e - 1) # c.word

\* C29: no word of the text is captured by more than one of the four pattern
\* families, so that no verb occurrence is emitted twice: the verbs returned
\* are not more than the distinct captured word positions.
C29_FamiliesExclusive ==
    \A verbs \in C_Verbs :
        /\ \A c, d \in C_Captured : c.family # d.family => (c.e <= d.b \/ d.e <= c.b)
        /\ Len(verbs) <= Cardinality({c.b : c \in C_Captured})

\* the verbs of a text in which three families capture a word, one of them
\* after 'Here' and two blanks, have been extracted
C29_Witness ==
    \E verbs \in C_Verbs :
        /\ Cardinality({c.family : c \in C_Captured}) >= 3
        /\ contains(text, "Here  We use")
        /\ Len(verbs) >= 3

(***************************************************************************)
(* The n-gram extractor on its own                                         *)
(***************************************************************************)
MaxNgramFrags == 4

NgramFragments == <<"Raman ", "the ", "gain, ", "of ", "label-free ", "SRS2 ">>

NgramTexts ==
    {join("", AsTuple([k \in 1..Len(q) |-> NgramFragments[q[k]]])) :
        q \in SeqsUpTo(1..Len(NgramFragments), MaxNgramFrags)}

InitNgrams ==
    /\ text \in NgramTexts
    /\ n_sentences = 0
    /\ content = ""
    /\ returned = <<>>
    /\ abstracts = <<>>
    /\ manuscript_keywords = <<>>
    /\ output_file = <<>>
    /\ runs = <<>>
    /\ sentence = ""
    /\ op = ""
    /\ cl = ""
    /\ abstract_texts = <<>>
    /\ alignment = <<>>

\* extract_ngrams(text, n)
ExtractNgrams(n) == Returns("extract_ngrams", [n |-> n, ngrams |-> extract_ngrams(text, n)])

NextNgrams == \E n \in {2, 3} : ExtractNgrams(n)

SpecNgrams == InitNgrams /\ [][NextNgrams]_vars

\* the calls of extract_ngrams on text that have returned
C_Ngrams == {returned[k].value : k \in {j \in DOMAIN returned : returned[j].fn = "extract_ngrams"}}

\* the windows of n consecutive tokens of text, in text order
C26_Windows(n) ==
    LET tokens == tokenize(text)
    IN AsTuple([i \in 1..(Len(tokens) - n + 1) |-> SubSeq(tokens, i, i + n - 1)])

C26_Clean(window) == \A k \in 1..Len(window) : window[k] \notin STOPWORDS /\ Len(window[k]) >= 3

\* C26: for n = 2 and n = 3 extract_ngrams returns, in text order, exactly
\* the windows of n consecutive tokens (of the token sequence as tokenized,
\* before any filter) that hold no stopword and no token under 3 characters,
\* each joined by single blanks; a text of fewer than n tokens yields none.
C26_CleanWindows ==
    \A call \in C_Ngrams :
        LET clean == SelectSeq(C26_Windows(call.n), C26_Clean)
        IN /\ call.ngrams = AsTuple([k \in 1..Len(clean) |-> join(" ", clean[k])])
           /\ Len(tokenize(text)) < call.n => call.ngrams = <<>>

\* the bigrams of a text have been extracted in which a stopword stands
\* between tokens that pass the filter, and some window passes
C26_Witness ==
    \E call \in C_Ngrams :
        /\ call.n = 2
        /\ call.ngrams # <<>>
        /\ \E i \in 2..(Len(tokenize(text)) - 1) :
              /\ tokenize(text)[i] \in STOPWORDS
              /\ tokenize(text)[i - 1] \notin STOPWORDS
              /\ tokenize(text)[i + 1] \notin STOPWORDS

(***************************************************************************)
(* The hedge detector on its own                                           *)
(***************************************************************************)
MaxDetectFrags == 3

DetectFragments ==
    <<"opening ", "promising ", "new avenues. ", "may may ", "We can ", "about ~5 ",
      "cannot ", "Enabling ">>

DetectTexts ==
    {join("", AsTuple([k \in 1..Len(q) |-> DetectFragments[q[k]]])) :
        q \in SeqsUpTo(1..Len(DetectFragments), MaxDetectFrags)}

InitDetect ==
    /\ text \in DetectTexts
    /\ n_sentences = 0
    /\ content = ""
    /\ returned = <<>>
    /\ abstracts = <<>>
    /\ manuscript_keywords = <<>>
    /\ output_file = <<>>
    /\ runs = <<>>
    /\ sentence = ""
    /\ op = ""
    /\ cl = ""
    /\ abstract_texts = <<>>
    /\ alignment = <<>>

\* detect_hedges(text)
DetectHedges == Returns("detect_hedges", detect_hedges(text))

NextDetect == DetectHedges

SpecDetect == InitDetect /\ [][NextDetect]_vars

\* the results detect_hedges has returned for text
C_Hedges == {returned[k].value : k \in {j \in DOMAIN returned : returned[j].fn = "detect_hedges"}}

\* the matches counted for the category of position c are the matches of its
\* patterns, and no two of them overlap
C27_Disjoint(c, counted) ==
    LET ms == HedgeMatches(HEDGE_CATEGORIES[c], text)
    IN /\ counted = Len(ms)
       /\ \A i, j \in 1..Len(ms) : i # j => (ms[i].e <= ms[j].b \/ ms[j].e <= ms[i].b)

\* C27: in each of the six categories the matches detect_hedges counts are
\* spans of the text no two of which overlap; the total is the sum of the
\* six category counts, and no category lists more than 3 examples.
C27_DisjointSpans ==
    \A result \in C_Hedges :
        /\ Len(result.cats) = 6
        /\ \A c \in 1..Len(result.cats) :
              /\ C27_Disjoint(c, result.cats[c].count)
              /\ Len(result.cats[c].examples) <= 3
        /\ result.total = SumSeq(AsTuple([c \in 1..Len(result.cats) |-> result.cats[c].count]))

(***************************************************************************)
(* The information-density section of the report on its own                *)
(***************************************************************************)
MaxPeakDocs == 3

\* texts whose sentences have 7, 7, 3, 3 / 7, 2, 0 / no / 1, 2 / 7, 7
\* information units
PeakTexts ==
    <<ShapeFragments[5] \o ShapeFragments[5] \o ShapeFragments[4] \o ShapeFragments[4],
      ShapeFragments[5] \o ShapeFragments[3] \o ShapeFragments[1],
      "   ",
      ShapeFragments[2] \o ShapeFragments[3],
      ShapeFragments[5] \o ShapeFragments[5]>>

PeakRecords == {BareRecord("10.3/" \o Str(k), "P", PeakTexts[k]) : k \in 1..Len(PeakTexts)}

InitPeak ==
    /\ abstracts \in SeqsUpTo(PeakRecords, MaxPeakDocs) \ {<<>>}
    /\ manuscript_keywords = <<>>
    /\ output_file = <<>>
    /\ runs = <<>>
    /\ sentence = ""
    /\ op = ""
    /\ cl = ""
    /\ abstract_texts = <<>>
    /\ alignment = <<>>
    /\ NoArgs

\* result['discourse_info_density'] (lines 526-541 and 629-635) in a process
\* whose string hashing is seeded with hashseed
DiscourseInfoDensity(hashseed) ==
    Returns("discourse_info_density", InfoDensity(Valid(abstracts), hashseed))

NextPeak == \E hashseed \in 0..MaxHashSeed : DiscourseInfoDensity(hashseed)

SpecPeak == InitPeak /\ [][NextPeak]_vars

\* the information-density sections computed for the corpus
C_Density ==
    {returned[k].value : k \in {j \in DOMAIN returned : returned[j].fn = "discourse_info_density"}}

\* the information units per sentence of all sentences of the valid
\* abstracts of the corpus (the numbers do not depend on the hash seed)
C28_AllDensities ==
    ConcatAll(AsTuple([k \in 1..Len(Valid(abstracts)) |->
        info_density_profile(Valid(abstracts)[k].full_abstract, 0).densities]))

\* C28: the target peak of the recommendation is max(5, floor(mean_IU + 1.5))
\* with mean_IU the mean of the information units per sentence over all
\* sentences of all valid abstracts, 0 without any sentence.
C28_TargetFromMean ==
    \A section \in C_Density :
        LET d == C28_AllDensities
        IN section.target_peak =
              IF d = <<>> THEN 5
              ELSE Max2(5, (2 * SumSeq(d) + 3 * Len(d)) \div (2 * Len(d)))

\* C28 amended: the target peak of the recommendation is
\* max(5, floor(mean_IU + 1.5)) with mean_IU the mean the report gives as
\* mean_iu_per_sentence: the mean of the information units per sentence over
\* all sentences of all valid abstracts rounded to one decimal, 0 without any
\* sentence (means are in tenths).
C28_TargetFromRoundedMean ==
    \A section \in C_Density :
        LET d == C28_AllDensities
        IN /\ section.mean_iu_per_sentence =
                 IF d = <<>> THEN 0 ELSE RoundDiv(10 * SumSeq(d), Len(d))
           /\ section.target_peak = Max2(5, (section.mean_iu_per_sentence + 15) \div 10)

\* the section of a corpus of 11 sentences with 49 information units has
\* been computed: the mean 4.4545 is given as 4.5 and the target is 6
C28_Witness ==
    \E section \in C_Density :
        /\ Len(C28_AllDensities) = 11
        /\ SumSeq(C28_AllDensities) = 49
        /\ section.mean_iu_per_sentence = 45
        /\ section.target_peak = 6

(***************************************************************************)
(* The sign of the keyword contributions                                   *)
(***************************************************************************)
\* the documents of the corpus that contain the keyword kw
C30_Containing(kw) ==
    {i \in 1..Len(abstract_texts) : contains(lower(abstract_texts[i]), lower(kw))}

\* C30: in a corpus of N >= 1 documents a keyword found in no document
\* contributes the tf_idf 0, a keyword found in exactly N - 1 documents 0, a
\* keyword found in all N documents a tf_idf below 0, and a keyword
\* contributes a tf_idf above 0 only when it is found in at least 1 and in
\* fewer than N - 1 documents; a keyword found in every document, added to
\* the keyword list, does not raise the score.
C30_ContributionSigns ==
    (alignment # <<>> /\ abstract_texts # <<>>) =>
        /\ \A k \in DOMAIN alignment[1].detail :
              LET tf_idf == alignment[1].detail[k].tf_idf
                  df == Cardinality(C30_Containing(alignment[1].detail[k].kw))
                  N == Len(abstract_texts)
              IN /\ df = 0 => tf_idf = 0
                 /\ df = N - 1 => tf_idf = 0
                 /\ df = N => tf_idf < 0
                 /\ tf_idf > 0 <=> (1 <= df /\ df < N - 1)
        /\ \A kw \in AlignKeywords :
              Cardinality(C30_Containing(kw)) = Len(abstract_texts) =>
                  compute_topic_alignment(Append(manuscript_keywords, kw), abstract_texts).score
                      <= alignment[1].score

\* the alignment of a corpus of 3 documents has been computed with a keyword
\* found in one of them and a keyword found in all of them
C30_Witness ==
    /\ alignment # <<>>
    /\ Len(abstract_texts) = 3
    /\ \E k \in DOMAIN alignment[1].detail :
          alignment[1].detail[k].tf_idf > 0 /\ alignment[1].detail[k].doc_frequency = 1
    /\ \E k \in DOMAIN alignment[1].detail :
          alignment[1].detail[k].tf_idf < 0 /\ alignment[1].detail[k].doc_frequency = 3

====
